---- MODULE Spec2Model ----
(***************************************************************************)
(* A model of the UKG scraper's change-detection core: the schedule        *)
(* normaliser (schedule-utils.js), the snapshot differs, the discrepancy   *)
(* checker and the daily run (run-daily.js), and the scraper's join of its *)
(* two acquisitions (scrape-all.js).                                       *)
(*                                                                         *)
(* Representation.  A JavaScript string is a sequence of tokens (TLA+      *)
(* strings): a token is one character where the code looks at characters   *)
(* (times "9:00", dates "02/20") and one word elsewhere; concatenation is  *)
(* \o, startsWith is "is a prefix", includes is "is a contiguous           *)
(* subsequence".  An ISO date YYYY-MM-DD is the integer YYYYMMDD, whose     *)
(* order is the lexicographic order of the ISO strings.                    *)
(***************************************************************************)
EXTENDS Integers, Sequences, FiniteSets, TLC

VARIABLES
  \* the differ under test: detectScheduleChanges / detectTimecardChanges
  diffPc,        \* "idle", "schedule", "timecard", "scheduleDone", "timecardDone"
  oldData,       \* the previous snapshot handed to the differ, null for none
  newData,       \* the current snapshot handed to the differ
  diffResult,    \* what the differ returned
  \* the normaliser under test: mapApiToShifts
  mapPc,         \* "idle", "regular", "holidays", "timeOff", "sort", "returned", "threw"
  apiResponse,   \* the API response bundle handed to mapApiToShifts
  shiftsByDate,  \* its Map, as the list of its values in insertion order
  shifts,        \* the list it returned
  \* the discrepancy checker under test: detectTimecardDiscrepancy
  discPc,        \* "idle", "call", "done"
  discSchedule,  \* its scheduleData
  discTimecard,  \* its timecardData
  dateOverride,  \* its dateOverride
  timeZone,      \* the time zone of the process: "UTC", "east" or "west" of it
  discResult,    \* what it returned
  \* the daily run: main of run-daily.js
  files,         \* the data directory: file name -> file content
  now,           \* the clock: the calendar date in UTC and in local time
  runs,          \* how many runs have started
  pc,            \* "idle", "scrape", "detect", "email", "done"
  runDate,       \* main's date
  alerts,        \* main's alerts
  prevSchedule,  \* main's prevSchedule
  prevTimecard,  \* main's prevTimecard
  result,        \* what runScrapers returned, null before and when it threw
  scheduleData,  \* main's scheduleData, null while undefined
  timecardData,  \* main's timecardData, null while undefined
  mail,          \* the call of sendEmail of the last run that ended, null if it made none
  lastGood,      \* history: per name, the snapshot the most recent finished run acquired
  \* the scraper process: main of scrape-all.js
  scraperPc,     \* "idle", "login", "scraping", "exited"
  scheduleResult, \* the settlement of scrapeSchedule
  timecardResult, \* the settlement of scrapeTimecard
  settled,       \* history: the order in which the two settled
  stdout,        \* what the process printed, null if nothing
  exitCode,      \* its exit status
  \* filterTimecardEntries as scrapeTimecard calls it
  filterPc,        \* "idle", "call", "done"
  previousEntries, \* the entries of the previous pay period
  currentEntries,  \* the entries of the current pay period
  referenceDateStr, \* the reference date
  filterResult,    \* what it returned
  \* parseTime applied to a string
  parsePc,       \* "idle", "call", "done"
  parseStr,      \* its argument
  parseResult,   \* what it returned
  \* formatShift applied to a shift
  formatPc,      \* "idle", "call", "done"
  formatArg,     \* its argument s
  formatResult,  \* what it returned
  \* scrapeTimecard of scrape-all.js, from the loaded timecard grid on
  currentPage,   \* the grid of the current pay period
  previousPage,  \* the grid of the previous pay period, and whether it loaded
  timecardOutcome, \* how scrapeTimecard settled
  \* the schedule page read as text: scrape-schedule.js
  textPc,        \* "idle", the step a harness is at, "done"
  pageText,      \* document.body.innerText
  rawDays,       \* what parseDaysFromText returned
  lookupToday,   \* the local calendar date of the run
  lookupZone,    \* the time zone of the process
  weekOffset,    \* the argument of buildDateLookupForWeek
  dateLookup,    \* the Map it returned
  allShifts      \* the shifts main has pushed

diffVars == <<diffPc, oldData, newData, diffResult>>
mapVars == <<mapPc, apiResponse, shiftsByDate, shifts>>
discVars == <<discPc, discSchedule, discTimecard, dateOverride, timeZone, discResult>>
mainVars == <<files, now, runs, pc, runDate, alerts, prevSchedule, prevTimecard, result,
              scheduleData, timecardData, mail, lastGood>>
scraperVars == <<scraperPc, scheduleResult, timecardResult, settled, stdout, exitCode>>
runVars == <<mainVars, scraperVars>>
filterVars == <<filterPc, previousEntries, currentEntries, referenceDateStr, filterResult>>
parseVars == <<parsePc, parseStr, parseResult>>
formatVars == <<formatPc, formatArg, formatResult>>
pageVars == <<currentPage, previousPage, timecardOutcome>>
textVars == <<textPc, pageText, rawDays, lookupToday, lookupZone, weekOffset, dateLookup,
              allShifts>>
moreVars == <<formatVars, pageVars, textVars>>
vars == <<diffVars, mapVars, discVars, runVars, filterVars, parseVars, moreVars>>

----------------------------------------------------------------------------
(* JavaScript values.  The en dash, em dash and arrow of the messages are
   written "--", "---" and "->". *)

\* null where a string is expected (string | null)
NULL == <<"<null>">>

\* null where an object is expected (a snapshot, a record looked up and not found)
null == <<>>

\* null where a list of strings is expected (string[] | null)
NullList == <<NULL>>

\* `${v}`: a template literal prints a null as the text "null"
Str(v) == IF v = NULL THEN <<"null">> ELSE v

\* undefined where a string is expected
UNDEFINED == <<"<undefined>">>

\* truthiness of a string | null | undefined: null, undefined and "" are falsy
Truthy(v) == v # NULL /\ v # UNDEFINED /\ v # <<>>

\* a || b on strings
OrElse(a, b) == IF Truthy(a) THEN a ELSE b

\* a ?? b on strings
Coalesce(a, b) == IF a = NULL THEN b ELSE a

RECURSIVE Concat(_)
\* the texts of a list, one after the other
Concat(list) == IF list = <<>> THEN <<>> ELSE Head(list) \o Concat(Tail(list))

RECURSIVE Join(_, _)
\* list.join(sep)
Join(list, sep) ==
  IF list = <<>> THEN <<>>
  ELSE IF Len(list) = 1 THEN list[1]
  ELSE list[1] \o sep \o Join(Tail(list), sep)

\* s.startsWith(p)
StartsWith(s, p) == Len(p) <= Len(s) /\ SubSeq(s, 1, Len(p)) = p

\* s.includes(p)
Includes(s, p) ==
  \E i \in 0..(Len(s) - Len(p)) : SubSeq(s, i + 1, i + Len(p)) = p

Digits == <<"0", "1", "2", "3", "4", "5", "6", "7", "8", "9">>

\* String(n) for an integer n >= 0, one token per digit
RECURSIVE IntToText(_)
IntToText(n) ==
  IF n < 10 THEN <<Digits[n + 1]>>
  ELSE IntToText(n \div 10) \o <<Digits[(n % 10) + 1]>>

IsDigit(c) == \E i \in 1..10 : Digits[i] = c

DigitVal(c) == (CHOOSE i \in 1..10 : Digits[i] = c) - 1

\* parseInt / Number of a text made of digits only
RECURSIVE DigitsToInt(_)
DigitsToInt(t) ==
  IF t = <<>> THEN 0
  ELSE 10 * DigitsToInt(SubSeq(t, 1, Len(t) - 1)) + DigitVal(t[Len(t)])

\* String(n).padStart(2, "0")
Pad2(n) == IF n < 10 THEN <<"0">> \o IntToText(n) ELSE IntToText(n)

----------------------------------------------------------------------------
(* Calendar: what Date does for the code *)

YearOf(date) == date \div 10000
MonthOf(date) == (date \div 100) % 100
DayOf(date) == date % 100
MkDate(y, m, d) == y * 10000 + m * 100 + d

\* days since 1970-01-01 of a civil date
DaysFromCivil(y, m, d) ==
  LET yy == IF m <= 2 THEN y - 1 ELSE y
      era == yy \div 400
      yoe == yy - era * 400
      mp == (m + 9) % 12
      doy == (153 * mp + 2) \div 5 + d - 1
      doe == yoe * 365 + yoe \div 4 - yoe \div 100 + doy
  IN era * 146097 + doe - 719468

\* the civil date, as YYYYMMDD, of a day count
CivilFromDays(z0) ==
  LET z == z0 + 719468
      era == z \div 146097
      doe == z - era * 146097
      yoe == (doe - doe \div 1460 + doe \div 36524 - doe \div 146096) \div 365
      doy == doe - (365 * yoe + yoe \div 4 - yoe \div 100)
      mp == (5 * doy + 2) \div 153
      d == doy - (153 * mp + 2) \div 5 + 1
      m == IF mp < 10 THEN mp + 3 ELSE mp - 9
      y == yoe + era * 400 + (IF m <= 2 THEN 1 ELSE 0)
  IN MkDate(y, m, d)

DayNumber(date) == DaysFromCivil(YearOf(date), MonthOf(date), DayOf(date))

\* addDays(d, n) on calendar dates
addDays(date, n) == CivilFromDays(DayNumber(date) + n)

DAY_NAMES == <<"Sun", "Mon", "Tue", "Wed", "Thu", "Fri", "Sat">>

\* d.getDay(): 1970-01-01 was a Thursday
getDay(date) == (DayNumber(date) + 4) % 7

\* dayOfWeek(dateStr)
dayOfWeek(date) == DAY_NAMES[getDay(date) + 1]

MONTHS ==
  <<"Jan", "Feb", "Mar", "Apr", "May", "Jun", "Jul", "Aug", "Sep", "Oct", "Nov", "Dec">>

\* an MM/DD string, one token per character
Mmdd(m, d) == Pad2(m) \o <<"/">> \o Pad2(d)

\* mmdd.split("/").map(Number) of a well-shaped MM/DD string
MmddMonth(mmdd) == DigitsToInt(SubSeq(mmdd, 1, 2))
MmddDay(mmdd) == DigitsToInt(SubSeq(mmdd, 4, 5))

----------------------------------------------------------------------------
(* Formatting helpers of run-daily.js *)

\* formatIsoDate(day, isoDate): "Fri 20 Feb"
formatIsoDate(day, isoDate) ==
  <<day, " ">> \o IntToText(DayOf(isoDate)) \o <<" ", MONTHS[MonthOf(isoDate)]>>

\* formatMmdd(day, mmdd): "Fri 20 Feb"
formatMmdd(day, mmdd) ==
  <<day, " ">> \o IntToText(MmddDay(mmdd)) \o <<" ", MONTHS[MmddMonth(mmdd)]>>

\* formatShift with the times tested before off, and one time being enough
formatShiftTimesFirst(s) ==
  IF Truthy(s.start) \/ Truthy(s.end) THEN Str(s.start) \o <<"--">> \o Str(s.end)
  ELSE IF s.off THEN OrElse(s.note, <<"Day", " ", "Off">>)
  ELSE IF Truthy(s.note) THEN s.note
  ELSE <<"No", " ", "details">>

\* formatShift(s)
formatShift(s) ==
  IF s.off THEN OrElse(s.note, <<"Day", " ", "Off">>)
  ELSE IF Truthy(s.start) /\ Truthy(s.end) THEN Str(s.start) \o <<"--">> \o Str(s.end)
  ELSE IF Truthy(s.note) THEN s.note
  ELSE <<"No", " ", "details">>

FIELD_LABELS ==
  [clockIn1 |-> <<"Clock", " ", "In">>,
   clockOut1 |-> <<"Clock", " ", "Out">>,
   clockIn2 |-> <<"Clock", " ", "In", " ", "2">>,
   clockOut2 |-> <<"Clock", " ", "Out", " ", "2">>,
   payCode |-> <<"Pay", " ", "Code">>,
   amount |-> <<"Amount">>,
   shiftTotal |-> <<"Shift", " ", "Total">>,
   dailyTotal |-> <<"Daily", " ", "Total">>]

----------------------------------------------------------------------------
(* Change detection: detectScheduleChanges *)

\* const o = {}; for (const r of list) o[r.date] = r  -- the last record of a
\* date wins; a date that was never set reads as undefined
IndexByDate(list) ==
  [d \in {list[i].date : i \in 1..Len(list)} |->
     list[CHOOSE i \in 1..Len(list) :
            list[i].date = d /\ \A j \in (i + 1)..Len(list) : list[j].date # d]]

Lookup(index, key) == IF key \in DOMAIN index THEN index[key] ELSE null

\* the mutation: the two sides of the end-time comparison are swapped for the
\* start time of the current shift
ShiftDiffersWrongField(prev, s) ==
  prev.start # s.start \/ prev.end # s.start \/ prev.off # s.off

\* the mutation: the note is compared as well
ShiftDiffersWithNote(prev, s) ==
  prev.start # s.start \/ prev.end # s.end \/ prev.off # s.off \/ prev.note # s.note

\* prev.start !== s.start || prev.end !== s.end || prev.off !== s.off
ShiftDiffers(prev, s) ==
  prev.start # s.start \/ prev.end # s.end \/ prev.off # s.off

\* the descriptions one current shift adds to `changes` (none or one)
ScheduleChangeOf(oldShifts, s) ==
  LET label == formatIsoDate(s.day, s.date)
      prev == Lookup(oldShifts, s.date)
  IN IF prev = null
     THEN << label \o <<" ", "---", " ", "New", "\n", "  ">> \o formatShift(s) >>
     ELSE IF ShiftDiffers(prev, s)
          THEN << label \o <<" ", "---", " ", "Changed", "\n", "  ", "Was:", " ">>
                   \o formatShift(prev) \o <<"\n", "  ", "Now:", " ">> \o formatShift(s) >>
          ELSE <<>>

RECURSIVE ScheduleChangesLoopReversed(_, _)
\* the mutation: the shifts are visited from the last to the first
ScheduleChangesLoopReversed(oldShifts, list) ==
  IF list = <<>> THEN <<>>
  ELSE ScheduleChangeOf(oldShifts, list[Len(list)])
         \o ScheduleChangesLoopReversed(oldShifts, SubSeq(list, 1, Len(list) - 1))

RECURSIVE ScheduleChangesLoop(_, _)
\* for (const s of newData.shifts) { ... changes.push(...) }
ScheduleChangesLoop(oldShifts, list) ==
  IF list = <<>> THEN <<>>
  ELSE ScheduleChangeOf(oldShifts, Head(list))
         \o ScheduleChangesLoop(oldShifts, Tail(list))

\* the mutation: a first run reports every shift as new
detectScheduleChangesNoFirstRunGuard(old, new) ==
  LET changes == ScheduleChangesLoop(
                   IF old = null THEN <<>> ELSE IndexByDate(old.shifts), new.shifts)
  IN IF Len(changes) > 0 THEN changes ELSE NullList

RECURSIVE RemovedShifts(_, _)
\* a description for every shift of the list whose date the current snapshot lacks
RemovedShifts(list, new) ==
  IF list = <<>> THEN <<>>
  ELSE (IF \E i \in 1..Len(new.shifts) : new.shifts[i].date = Head(list).date THEN <<>>
        ELSE << formatIsoDate(Head(list).day, Head(list).date) \o <<" ", "---", " ", "Removed">> >>)
       \o RemovedShifts(Tail(list), new)

\* the mutation: the shifts the current snapshot no longer has are reported too
detectScheduleChangesWithRemoved(old, new) ==
  IF old = null THEN NullList
  ELSE LET changes == ScheduleChangesLoop(IndexByDate(old.shifts), new.shifts)
                        \o RemovedShifts(old.shifts, new)
       IN IF Len(changes) > 0 THEN changes ELSE NullList

\* detectScheduleChanges(oldData, newData)
detectScheduleChanges(old, new) ==
  IF old = null THEN NullList
  ELSE LET changes == ScheduleChangesLoop(IndexByDate(old.shifts), new.shifts)
       IN IF Len(changes) > 0 THEN changes ELSE NullList

----------------------------------------------------------------------------
(* Change detection: detectTimecardChanges *)

TrackedFields ==
  <<"clockIn1", "clockOut1", "clockIn2", "clockOut2",
    "payCode", "amount", "shiftTotal", "dailyTotal">>

RECURSIVE FieldDiffsFirstOnly(_, _, _)
\* the mutation: the loop over the fields stops at the first difference
FieldDiffsFirstOnly(prev, e, fields) ==
  IF fields = <<>> THEN <<>>
  ELSE LET f == Head(fields)
           line == <<"  ">> \o FIELD_LABELS[f] \o <<":", " ">>
                     \o Coalesce(prev[f], <<"---">>) \o <<" ", "->", " ">>
                     \o Coalesce(e[f], <<"---">>)
       IN IF prev[f] # e[f] THEN <<line>> ELSE FieldDiffsFirstOnly(prev, e, Tail(fields))

RECURSIVE FieldDiffs(_, _, _)
\* for (const f of fields) if (prev[f] !== e[f]) diffs.push(...)
FieldDiffs(prev, e, fields) ==
  IF fields = <<>> THEN <<>>
  ELSE LET f == Head(fields)
           line == <<"  ">> \o FIELD_LABELS[f] \o <<":", " ">>
                     \o Coalesce(prev[f], <<"---">>) \o <<" ", "->", " ">>
                     \o Coalesce(e[f], <<"---">>)
       IN (IF prev[f] # e[f] THEN <<line>> ELSE <<>>)
            \o FieldDiffs(prev, e, Tail(fields))

\* the descriptions one current entry adds to `changes` (none or one)
TimecardChangeOf(oldEntries, e) ==
  LET label == formatMmdd(e.day, e.date)
      prev == Lookup(oldEntries, e.date)
  IN IF prev = null
     THEN << label \o <<" ", "---", " ", "New", " ", "entry">> >>
     ELSE LET diffs == FieldDiffs(prev, e, TrackedFields)
          IN IF Len(diffs) > 0
             THEN << label \o <<" ", "---", " ", "Changed", "\n">> \o Join(diffs, <<"\n">>) >>
             ELSE <<>>

RECURSIVE TimecardChangesLoop(_, _)
\* for (const e of newData.entries) { ... changes.push(...) }
TimecardChangesLoop(oldEntries, entries) ==
  IF entries = <<>> THEN <<>>
  ELSE TimecardChangeOf(oldEntries, Head(entries))
         \o TimecardChangesLoop(oldEntries, Tail(entries))

\* detectTimecardChanges(oldData, newData)
detectTimecardChanges(old, new) ==
  IF old = null THEN NullList
  ELSE LET changes == TimecardChangesLoop(IndexByDate(old.entries), new.entries)
       IN IF Len(changes) > 0 THEN changes ELSE NullList

----------------------------------------------------------------------------
(* The discrepancy checker: parseTime and detectTimecardDiscrepancy *)

\* null where a number is expected (number | null)
NullNum == 0 - 1

\* a number in arithmetic: null counts as 0
Num(n) == IF n = NullNum THEN 0 ELSE n

Abs(n) == IF n < 0 THEN 0 - n ELSE n

\* str.match(/^(\d{1,2}):(\d{2})$/)
MatchesTime(str) ==
  \/ /\ Len(str) = 4
     /\ IsDigit(str[1]) /\ str[2] = ":" /\ IsDigit(str[3]) /\ IsDigit(str[4])
  \/ /\ Len(str) = 5
     /\ IsDigit(str[1]) /\ IsDigit(str[2]) /\ str[3] = ":"
     /\ IsDigit(str[4]) /\ IsDigit(str[5])

\* parseTime(str)
parseTime(str) ==
  IF ~Truthy(str) THEN NullNum
  ELSE IF ~MatchesTime(str) THEN NullNum
  ELSE LET colon == Len(str) - 2
       IN DigitsToInt(SubSeq(str, 1, colon - 1)) * 60
            + DigitsToInt(SubSeq(str, colon + 1, Len(str)))

THRESHOLD == 50

\* list.find(pred): the first element that satisfies it, or undefined
FindFirst(list, Pred(_)) ==
  IF \E i \in 1..Len(list) : Pred(list[i])
  THEN list[CHOOSE i \in 1..Len(list) :
              Pred(list[i]) /\ \A j \in 1..(i - 1) : ~Pred(list[j])]
  ELSE null

\* the mutation: a difference of exactly the threshold is reported
ExceedsThresholdAtThreshold(diff) == diff >= THRESHOLD

\* diff > THRESHOLD
ExceedsThreshold(diff) == diff > THRESHOLD

\* Math.abs(parseTime(actual) - parseTime(scheduled))
TimeDiff(actual, scheduled) == Abs(Num(parseTime(actual)) - Num(parseTime(scheduled)))

\* the line of one boundary, if one is pushed
BoundaryLines(name, actual, scheduled) ==
  IF Truthy(actual) /\ Truthy(scheduled) /\ ExceedsThreshold(TimeDiff(actual, scheduled))
  THEN << <<"  ">> \o name \o actual \o <<" ", "(", "scheduled", " ">> \o scheduled
            \o <<",", " ">> \o IntToText(TimeDiff(actual, scheduled))
            \o <<" ", "min", " ", "off", ")">> >>
  ELSE <<>>

ClockInName == <<"Clock", " ", "In", ":", "  ">>
ClockOutName == <<"Clock", " ", "Out", ":", " ">>

\* d.toISOString().slice(0, 10) of the local midnight of a date: east of UTC
\* that instant is still the day before in UTC
UtcDateOfLocalMidnight(date, tz) == IF tz = "east" THEN addDays(date, 0 - 1) ELSE date

\* the mutation: an entry that lacks one of its two punches is skipped
DiscrepancyOnBothPunches(sData, tData, todayStr, mmdd) ==
  LET IsTodayShift(x) == x.date = todayStr /\ ~x.off
      todayShift == FindFirst(sData.shifts, IsTodayShift)
      IsTodayEntry(e) == e.date = mmdd
      todayEntry == FindFirst(tData.entries, IsTodayEntry)
  IN IF todayShift = null THEN NullList
     ELSE IF todayEntry = null THEN NullList
     ELSE IF ~Truthy(todayEntry.clockIn1) \/ ~Truthy(todayEntry.clockOut1) THEN NullList
     ELSE LET lines == BoundaryLines(ClockInName, todayEntry.clockIn1, todayShift.start)
                         \o BoundaryLines(ClockOutName, todayEntry.clockOut1, todayShift.end)
          IN IF Len(lines) = 0 THEN NullList
             ELSE << formatIsoDate(todayShift.day, todayStr) \o <<"\n">>
                       \o Join(lines, <<"\n">>) >>

\* the function from line 336 on, given the two renderings of d
DiscrepancyOn(sData, tData, todayStr, mmdd) ==
  LET IsTodayShift(x) == x.date = todayStr /\ ~x.off
      todayShift == FindFirst(sData.shifts, IsTodayShift)
      IsTodayEntry(e) == e.date = mmdd
      todayEntry == FindFirst(tData.entries, IsTodayEntry)
  IN IF todayShift = null THEN NullList
     ELSE IF todayEntry = null THEN NullList
     ELSE IF ~Truthy(todayEntry.clockIn1) /\ ~Truthy(todayEntry.clockOut1) THEN NullList
     ELSE LET lines == BoundaryLines(ClockInName, todayEntry.clockIn1, todayShift.start)
                         \o BoundaryLines(ClockOutName, todayEntry.clockOut1, todayShift.end)
          IN IF Len(lines) = 0 THEN NullList
             ELSE << formatIsoDate(todayShift.day, todayStr) \o <<"\n">>
                       \o Join(lines, <<"\n">>) >>

\* new Date(dateOverride + "T00:00:00"): the local midnight of the date, as the
\* two calendar dates the code reads off it (toISOString in UTC, getMonth and
\* getDate in local time)
LocalMidnight(date, tz) == [utc |-> UtcDateOfLocalMidnight(date, tz), local |-> date]

\* detectTimecardDiscrepancy(sData, tData, dateOverride), d being
\* the Date of line 334
detectTimecardDiscrepancy(sData, tData, d) ==
  IF sData = null \/ tData = null THEN NullList
  ELSE DiscrepancyOn(sData, tData, d.utc,
                     Mmdd(MonthOf(d.local), DayOf(d.local)))

----------------------------------------------------------------------------
(* The normaliser: mapApiToShifts *)

\* whether the object has the property; reading a missing one gives undefined
Has(obj, k) == k \in DOMAIN obj

\* an ISO datetime YYYY-MM-DDTHH:MM:SS
DateTime(date, hh, mm) == [date |-> date, hh |-> Pad2(hh), mm |-> Pad2(mm), ss |-> Pad2(0)]

\* formatTime(isoDateTime): the hour without its leading zero
formatTime(isoDateTime) ==
  IntToText(DigitsToInt(isoDateTime.hh)) \o <<":">> \o isoDateTime.mm

\* the object literal of a Shift; its day is computed from its date
Shift(date, start, end, off, note) ==
  [date |-> date, day |-> dayOfWeek(date), start |-> start, end |-> end,
   off |-> off, note |-> note]

\* shiftsByDate.has(date)
MapHas(map, date) == \E i \in 1..Len(map) : map[i].date = date

\* shiftsByDate.get(date), for a date the Map has
MapGet(map, date) == map[CHOOSE i \in 1..Len(map) : map[i].date = date]

\* shiftsByDate.set(date, shift): a key the Map has keeps its place
MapSet(map, shift) ==
  IF MapHas(map, shift.date)
  THEN [i \in 1..Len(map) |-> IF map[i].date = shift.date THEN shift ELSE map[i]]
  ELSE Append(map, shift)

\* the state of the function between two statements: its Map, and whether a
\* TypeError has been thrown
Running(map) == [threw |-> FALSE, map |-> map]
Thrown(map) == [threw |-> TRUE, map |-> map]

\* one regular shift: reading .split of a missing startDateTime or endDateTime throws
RegularStep(map, rs) ==
  IF ~Has(rs, "startDateTime") \/ ~Has(rs, "endDateTime") THEN Thrown(map)
  ELSE LET date == rs.startDateTime.date
       IN Running(MapSet(map, Shift(date, formatTime(rs.startDateTime),
                                    formatTime(rs.endDateTime), FALSE, NULL)))

RECURSIVE RegularLoop(_, _)
\* for (const rs of regularShifts) { ... }
RegularLoop(map, list) ==
  IF list = <<>> THEN Running(map)
  ELSE LET r == RegularStep(map, Head(list))
       IN IF r.threw THEN r ELSE RegularLoop(r.map, Tail(list))

\* item.holidays?.[0]?.displayName || "Holiday"
HolidayName(item) ==
  IF Has(item, "holidays") /\ Len(item.holidays) > 0 /\ Has(item.holidays[1], "displayName")
  THEN OrElse(item.holidays[1].displayName, <<"Holiday">>)
  ELSE <<"Holiday">>

\* the mutation: a holiday replaces the shift of its date
HolidayStepReplaces(map, item) ==
  MapSet(map, Shift(item.date, NULL, NULL, TRUE, HolidayName(item)))

\* one holiday entry: annotate the shift of its date, or add a day off
HolidayStep(map, item) ==
  IF MapHas(map, item.date)
  THEN [i \in 1..Len(map) |->
          IF map[i].date = item.date THEN [map[i] EXCEPT !.note = HolidayName(item)]
          ELSE map[i]]
  ELSE MapSet(map, Shift(item.date, NULL, NULL, TRUE, HolidayName(item)))

RECURSIVE HolidayLoop(_, _)
\* for (const item of holidayList) { ... }
HolidayLoop(map, list) ==
  IF list = <<>> THEN map
  ELSE HolidayLoop(HolidayStep(map, Head(list)), Tail(list))

\* `${label} (${status})`
TimeOffNote(tor) ==
  tor.requestSubType.localizedName \o <<" ", "(">> \o tor.currentStatus.name \o <<")">>

\* the mutation: a time-off period is stored whether or not its date has a shift
PeriodStepOverwrites(map, note, period) ==
  MapSet(map, Shift(period.startDate, NULL, NULL, TRUE, note))

\* one period of a time-off request
PeriodStep(map, note, period) ==
  IF ~MapHas(map, period.startDate)
  THEN MapSet(map, Shift(period.startDate, NULL, NULL, TRUE, note))
  ELSE map

RECURSIVE PeriodLoop(_, _, _)
\* for (const period of tor.periods) { ... }
PeriodLoop(map, note, periods) ==
  IF periods = <<>> THEN map
  ELSE PeriodLoop(PeriodStep(map, note, Head(periods)), note, Tail(periods))

\* one time-off request: reading .localizedName or .name of a missing object
\* throws, and so does iterating missing periods
TimeOffStep(map, tor) ==
  IF ~Has(tor, "requestSubType") \/ ~Has(tor, "currentStatus") \/ ~Has(tor, "periods")
  THEN Thrown(map)
  ELSE Running(PeriodLoop(map, TimeOffNote(tor), tor.periods))

RECURSIVE TimeOffLoop(_, _)
\* for (const tor of timeOffRequests) { ... }
TimeOffLoop(map, list) ==
  IF list = <<>> THEN Running(map)
  ELSE LET r == TimeOffStep(map, Head(list))
       IN IF r.threw THEN r ELSE TimeOffLoop(r.map, Tail(list))

RECURSIVE InsertByDate(_, _)
\* x put into the sorted list after every element that is not greater
InsertByDate(sorted, x) ==
  IF sorted = <<>> THEN <<x>>
  ELSE IF x.date < Head(sorted).date THEN <<x>> \o sorted
  ELSE <<Head(sorted)>> \o InsertByDate(Tail(sorted), x)

RECURSIVE SortedFrom(_, _)
SortedFrom(sorted, list) ==
  IF list = <<>> THEN sorted
  ELSE SortedFrom(InsertByDate(sorted, Head(list)), Tail(list))

\* the mutation: the values are returned in insertion order
SortByDateOmitted(list) == list

\* [...values].sort((a, b) => a.date.localeCompare(b.date)): a stable sort
SortByDate(list) == SortedFrom(<<>>, list)

\* apiResponse.<array> || []
ArrayOrEmpty(obj, k) == IF Has(obj, k) THEN obj[k] ELSE <<>>

\* mapApiToShifts(apiResponse): the list it returns, or that it threw
mapApiToShifts(api) ==
  LET r1 == RegularLoop(<<>>, ArrayOrEmpty(api, "regularShifts"))
      m2 == HolidayLoop(r1.map, ArrayOrEmpty(api, "holidayList"))
      r3 == TimeOffLoop(m2, ArrayOrEmpty(api, "timeOffRequests"))
  IN IF r1.threw \/ r3.threw THEN [threw |-> TRUE, shifts |-> <<>>]
     ELSE [threw |-> FALSE, shifts |-> SortByDate(r3.map)]

----------------------------------------------------------------------------
(* The daily run: persistence, the scraper process, alerts and the email *)

\* an ISO date as text, YYYY-MM-DD
IsoText(d) == IntToText(YearOf(d)) \o <<"-">> \o Pad2(MonthOf(d)) \o <<"-">> \o Pad2(DayOf(d))

\* JSON.stringify(data, null, 2) and JSON.parse(text): the data are strings,
\* booleans, nulls, arrays and objects, which the text holds as they are
JSONstringify(data) == [json |-> data]
JSONparse(text) == text.json

\* path.join(DATA_DIR, `${name}-${suffix}.json`)
DataFile(name, suffix) == <<"data", "/", name, "-">> \o suffix \o <<".json">>

LatestFile(name) == DataFile(name, <<"latest">>)

\* the mutation: only the dated file is written
saveDataDatedOnly(fs, name, d, data) ==
  [f \in DOMAIN fs \cup {DataFile(name, IsoText(d))} |->
     IF f = DataFile(name, IsoText(d)) THEN JSONstringify(data) ELSE fs[f]]

\* saveData(name, date, data): the data directory after it
saveData(fs, name, d, data) ==
  LET dated == DataFile(name, IsoText(d))
      latest == LatestFile(name)
      json == JSONstringify(data)
  IN [f \in DOMAIN fs \cup {dated, latest} |-> IF f \in {dated, latest} THEN json ELSE fs[f]]

\* loadLatest(name)
loadLatest(fs, name) ==
  IF LatestFile(name) \notin DOMAIN fs THEN null ELSE JSONparse(fs[LatestFile(name)])

RECURSIVE Repeat(_, _)
\* tok.repeat(n)
Repeat(tok, n) == IF n = 0 THEN <<>> ELSE <<tok>> \o Repeat(tok, n - 1)

RECURSIVE TextLength(_)
\* s.length: the characters of its tokens
TextLength(t) == IF t = <<>> THEN 0 ELSE Len(Head(t)) + TextLength(Tail(t))

\* formatAlert(title, items)
formatAlert(title, items) ==
  title \o <<"\n">> \o Repeat("-", TextLength(title)) \o <<"\n">> \o Join(items, <<"\n", "\n">>)

ScheduleTitle == <<"SCHEDULE", " ", "CHANGES">>
MismatchTitle == <<"TIMECARD", " ", "vs", " ", "SCHEDULE", " ", "MISMATCH">>
TimecardTitle == <<"TIMECARD", " ", "CHANGES">>

\* alerts.some(pred)
Some(list, Pred(_)) == \E i \in 1..Len(list) : Pred(list[i])

\* the subject of the email (lines 491-497)
SubjectOf(al) ==
  LET IsSchedule(a) == StartsWith(a, <<"SCHEDULE">>)
      IsMismatch(a) == StartsWith(a, <<"TIMECARD", " ", "vs">>)
      IsTimecard(a) == StartsWith(a, <<"TIMECARD", " ", "CHANGES">>)
      IsFailure(a) == Includes(a, <<"FAILED">>)
      subjects ==
        (IF Some(al, IsSchedule) THEN << <<"Schedule", " ", "changed">> >> ELSE <<>>)
        \o (IF Some(al, IsMismatch) THEN << <<"Timecard", " ", "mismatch">> >> ELSE <<>>)
        \o (IF Some(al, IsTimecard) THEN << <<"Timecard", " ", "changed">> >> ELSE <<>>)
        \o (IF Some(al, IsFailure) THEN << <<"Scraper", " ", "error">> >> ELSE <<>>)
  IN <<"UKG", " ", "Alert", ":", " ">>
       \o OrElse(Join(subjects, <<",", " ">>), <<"Changes", " ", "detected">>)

\* the body of the email (line 498)
BodyOf(d, al) ==
  <<"UKG", " ", "Daily", " ", "Run", " ", "---", " ">> \o IsoText(d) \o <<"\n">>
    \o Repeat("=", 40) \o <<"\n", "\n">> \o Join(al, <<"\n", "\n">>) \o <<"\n">>

\* the settlement of a promise
Pending == [status |-> "pending"]
Fulfilled(v) == [status |-> "fulfilled", value |-> v]
Rejected(msg) == [status |-> "rejected", reason |-> msg]

\* the errors list and the two results the scraper builds from the settlements
\* (lines 321-340 of scrape-all.js)
ScraperErrors(sr, tr) ==
  (IF sr.status = "fulfilled" THEN <<>>
   ELSE << <<"Schedule", " ", "scraper", " ", "failed", ":", " ">> \o sr.reason >>)
  \o (IF tr.status = "fulfilled" THEN <<>>
      ELSE << <<"Timecard", " ", "scraper", " ", "failed", ":", " ">> \o tr.reason >>)

ValueOrNull(r) == IF r.status = "fulfilled" THEN r.value ELSE null

\* the mutation: the process fails as soon as one acquisition failed
ScraperExitCodeIfAny(schedule, timecard) ==
  IF schedule = null \/ timecard = null THEN 1 ELSE 0

\* if (!schedule && !timecard) process.exit(1)
ScraperExitCode(schedule, timecard) ==
  IF schedule = null /\ timecard = null THEN 1 ELSE 0

\* err.message of execFileSync for a process that exited with a failure status
CommandFailed == <<"Command", " ", "failed", ":", " ", "node", " ", "scrape-all.js">>

\* the alert of the catch branch (line 464)
ScraperFailedAlert == <<"Scraper", " ", "FAILED", ":", "\n", "  ">> \o CommandFailed

\* the mutation: the errors of the result are not pushed to the alerts
TakeResultDropsErrors(res, fs, d, al) ==
  LET fs1 == IF res.schedule # null THEN saveData(fs, "schedule", d, res.schedule) ELSE fs
      fs2 == IF res.timecard # null THEN saveData(fs1, "timecard", d, res.timecard) ELSE fs1
  IN [alerts |-> al, scheduleData |-> res.schedule,
      timecardData |-> res.timecard, files |-> fs2]

\* the mutation: a snapshot is saved whether or not it was acquired
TakeResultSavesAlways(res, fs, d, al) ==
  [alerts |-> al \o res.errors, scheduleData |-> res.schedule, timecardData |-> res.timecard,
   files |-> saveData(saveData(fs, "schedule", d, res.schedule), "timecard", d, res.timecard)]

\* the try block of main (lines 444-461) for a result that was parsed: the
\* alerts, the two data and the data directory after it
TakeResult(res, fs, d, al) ==
  LET fs1 == IF res.schedule # null THEN saveData(fs, "schedule", d, res.schedule) ELSE fs
      fs2 == IF res.timecard # null THEN saveData(fs1, "timecard", d, res.timecard) ELSE fs1
  IN [alerts |-> al \o res.errors, scheduleData |-> res.schedule,
      timecardData |-> res.timecard, files |-> fs2]

\* the mutation: the timecard changes are computed and dropped
DetectedAlertsWithoutTimecard(prevS, prevT, sData, tData, d) ==
  LET scheduleChanges == detectScheduleChanges(prevS, sData)
      discrepancy == detectTimecardDiscrepancy(sData, tData, d)
  IN (IF sData # null /\ scheduleChanges # NullList
      THEN <<formatAlert(ScheduleTitle, scheduleChanges)>> ELSE <<>>)
     \o (IF tData # null /\ sData # null /\ discrepancy # NullList
         THEN <<formatAlert(MismatchTitle, discrepancy)>> ELSE <<>>)

\* the mutation: an email that could not be sent takes the latest files back
AfterSendEmailRollsBack(fs, delivered) ==
  IF delivered THEN fs
  ELSE [f \in DOMAIN fs \ { LatestFile("schedule"), LatestFile("timecard") } |-> fs[f]]

\* the data directory after sendEmail has returned or thrown: the catch block
\* (lines 502-504) only logs
AfterSendEmail(fs, delivered) == fs

\* the alerts the detection block pushes (lines 468-487)
DetectedAlerts(prevS, prevT, sData, tData, d) ==
  (IF sData # null /\ detectScheduleChanges(prevS, sData) # NullList
   THEN <<formatAlert(ScheduleTitle, detectScheduleChanges(prevS, sData))>> ELSE <<>>)
  \o (IF tData # null /\ sData # null /\ detectTimecardDiscrepancy(sData, tData, d) # NullList
      THEN <<formatAlert(MismatchTitle, detectTimecardDiscrepancy(sData, tData, d))>>
      ELSE <<>>)
  \o (IF tData # null /\ detectTimecardChanges(prevT, tData) # NullList
      THEN <<formatAlert(TimecardTitle, detectTimecardChanges(prevT, tData))>> ELSE <<>>)

----------------------------------------------------------------------------
(* The snapshots the differs are applied to: what the normalisers produce,   *)
(* one record per date, ascending by date.                                   *)

\* how many consecutive calendar dates a snapshot may cover
MaxShiftDates == 2

FirstDate == MkDate(2026, 2, 20)

SnapshotDate(k) == addDays(FirstDate, k - 1)

T(h, m) == IntToText(h) \o <<":">> \o Pad2(m)

\* the shifts a date may carry: two working shifts that differ in their start,
\* one that differs from the first in its note only, and a day off
ShiftVariants(date) ==
  { Shift(date, T(9, 0), T(17, 0), FALSE, NULL),
    Shift(date, T(10, 0), T(17, 0), FALSE, NULL),
    Shift(date, T(9, 0), T(17, 0), FALSE, <<"Bank", " ", "Holiday">>),
    Shift(date, NULL, NULL, TRUE, <<"Annual", " ", "Leave", " ", "(", "Approved", ")">>) }

RECURSIVE ShiftLists(_)
\* the shift lists over the dates k, k+1, ..: each date absent or present once
ShiftLists(k) ==
  IF k > MaxShiftDates THEN { <<>> }
  ELSE LET rest == ShiftLists(k + 1)
       IN rest \cup { <<v>> \o r : v \in ShiftVariants(SnapshotDate(k)), r \in rest }

ScheduleSnapshots == { [shifts |-> l] : l \in ShiftLists(1) }

Entry(date, in1, out1, absence, total) ==
  [date |-> Mmdd(MonthOf(date), DayOf(date)), day |-> dayOfWeek(date),
   schedule |-> NULL, absence |-> absence,
   clockIn1 |-> in1, clockOut1 |-> out1, clockIn2 |-> NULL, clockOut2 |-> NULL,
   payCode |-> NULL, amount |-> NULL, shiftTotal |-> total, dailyTotal |-> total]

\* the entries a date may carry: a full day, a later clock-in, a day still
\* clocked in, and a full day with an absence noted or with the scheduled
\* hours shown (not tracked fields)
EntryVariants(date) ==
  { Entry(date, T(9, 0), T(17, 0), NULL, T(8, 0)),
    Entry(date, T(9, 30), T(17, 0), NULL, T(7, 30)),
    Entry(date, T(9, 0), NULL, NULL, NULL),
    Entry(date, T(9, 0), T(17, 0), <<"Sick">>, T(8, 0)),
    [Entry(date, T(9, 0), T(17, 0), NULL, T(8, 0)) EXCEPT !.schedule = T(9, 0) \o <<"-">> \o T(17, 0)] }

RECURSIVE EntryLists(_)
EntryLists(k) ==
  IF k > MaxShiftDates THEN { <<>> }
  ELSE LET rest == EntryLists(k + 1)
       IN rest \cup { <<v>> \o r : v \in EntryVariants(SnapshotDate(k)), r \in rest }

TimecardSnapshots ==
  { [period |-> <<"Last", " ", "2", " ", "Weeks">>, entries |-> l] : l \in EntryLists(1) }

----------------------------------------------------------------------------
(* The differs applied to every pair of snapshots *)

DiffIdle ==
  /\ diffPc = "idle"
  /\ oldData = null
  /\ newData = null
  /\ diffResult = <<>>

MapIdle ==
  /\ mapPc = "idle"
  /\ apiResponse = <<>>
  /\ shiftsByDate = <<>>
  /\ shifts = <<>>

DiscIdle ==
  /\ discPc = "idle"
  /\ discSchedule = null
  /\ discTimecard = null
  /\ dateOverride = 0
  /\ timeZone = "UTC"
  /\ discResult = <<>>

FilterIdle ==
  /\ filterPc = "idle"
  /\ previousEntries = <<>>
  /\ currentEntries = <<>>
  /\ referenceDateStr = 0
  /\ filterResult = <<>>

ParseIdle ==
  /\ parsePc = "idle"
  /\ parseStr = NULL
  /\ parseResult = NullNum

FormatIdle ==
  /\ formatPc = "idle"
  /\ formatArg = null
  /\ formatResult = <<>>

PageIdle ==
  /\ currentPage = <<>>
  /\ previousPage = [loaded |-> FALSE, rows |-> <<>>]
  /\ timecardOutcome = [status |-> "pending"]

TextIdle ==
  /\ textPc = "idle"
  /\ pageText = <<>>
  /\ rawDays = <<>>
  /\ lookupToday = 0
  /\ lookupZone = "UTC"
  /\ weekOffset = 0
  /\ dateLookup = <<>>
  /\ allShifts = <<>>

MoreIdle == FormatIdle /\ PageIdle /\ TextIdle

RunIdle ==
  /\ files = <<>>
  /\ now = [utc |-> FirstDate, local |-> FirstDate]
  /\ runs = 0
  /\ pc = "idle"
  /\ runDate = 0
  /\ alerts = <<>>
  /\ prevSchedule = null
  /\ prevTimecard = null
  /\ result = null
  /\ scheduleData = null
  /\ timecardData = null
  /\ mail = null
  /\ lastGood = [schedule |-> null, timecard |-> null]
  /\ scraperPc = "idle"
  /\ scheduleResult = Pending
  /\ timecardResult = Pending
  /\ settled = <<>>
  /\ stdout = null
  /\ exitCode = 0

InitDiff ==
  /\ RunIdle
  /\ MoreIdle
  /\ FilterIdle
  /\ ParseIdle
  /\ MapIdle
  /\ DiscIdle
  /\ \/ /\ diffPc = "schedule"
        /\ oldData \in {null} \cup ScheduleSnapshots
        /\ newData \in ScheduleSnapshots
     \/ /\ diffPc = "timecard"
        /\ oldData \in {null} \cup TimecardSnapshots
        /\ newData \in TimecardSnapshots
  /\ diffResult = <<>>

ApplyDetectScheduleChanges ==
  /\ diffPc = "schedule"
  /\ diffResult' = detectScheduleChanges(oldData, newData)
  /\ diffPc' = "scheduleDone"
  /\ UNCHANGED <<oldData, newData, mapVars, discVars, runVars, filterVars, parseVars, moreVars>>

ApplyDetectTimecardChanges ==
  /\ diffPc = "timecard"
  /\ diffResult' = detectTimecardChanges(oldData, newData)
  /\ diffPc' = "timecardDone"
  /\ UNCHANGED <<oldData, newData, mapVars, discVars, runVars, filterVars, parseVars, moreVars>>

NextDiff == ApplyDetectScheduleChanges \/ ApplyDetectTimecardChanges

SpecDiff == InitDiff /\ [][NextDiff]_vars

DiffDone == diffPc \in {"scheduleDone", "timecardDone"}

----------------------------------------------------------------------------
(* Claims about the differs *)

\* C1: diffing a snapshot against itself yields null, for the schedule differ
\* and for the timecard differ alike.
C1_SelfDiffIsNull ==
  (DiffDone /\ oldData = newData) => diffResult = NullList

\* a schedule snapshot with a record on every date was diffed against itself
C1_Witness ==
  /\ diffPc = "scheduleDone"
  /\ oldData = newData
  /\ Len(newData.shifts) = MaxShiftDates

\* C2: with no previous snapshot (first run) both differs return null whatever
\* the current snapshot holds.
C2_FirstRunIsNull ==
  (DiffDone /\ oldData = null) => diffResult = NullList

\* the timecard differ ran on a first run whose snapshot has entries
C2_Witness ==
  /\ diffPc = "timecardDone"
  /\ oldData = null
  /\ Len(newData.entries) > 0

\* the label of a schedule description and of a timecard description
ShiftLabel(x) == formatIsoDate(x.day, x.date)
EntryLabel(e) == formatMmdd(e.day, e.date)

\* the descriptions returned, none when the result is null
Descriptions == IF diffResult = NullList THEN <<>> ELSE diffResult

\* the descriptions that start with a label
DescriptionsOf(label) == { k \in 1..Len(Descriptions) : StartsWith(Descriptions[k], label) }

\* the record of the previous snapshot with the date, null if there is none
PreviousOn(list, d) ==
  IF \E i \in 1..Len(list) : list[i].date = d
  THEN list[CHOOSE i \in 1..Len(list) : list[i].date = d /\ \A j \in (i + 1)..Len(list) : list[j].date # d]
  ELSE null

\* what C14 says about one current shift
ShiftReportedAsClaimed(x) ==
  LET prev == PreviousOn(oldData.shifts, x.date)
      of == DescriptionsOf(ShiftLabel(x))
  IN IF prev = null
     THEN /\ Cardinality(of) = 1
          /\ \A k \in of : /\ Includes(Descriptions[k], <<"New">>)
                           /\ Includes(Descriptions[k], formatShift(x))
                           /\ ~Includes(Descriptions[k], <<"Changed">>)
     ELSE IF prev.start # x.start \/ prev.end # x.end \/ prev.off # x.off
     THEN /\ Cardinality(of) = 1
          /\ \A k \in of : /\ Includes(Descriptions[k], <<"Changed">>)
                           /\ Includes(Descriptions[k], <<"Was:", " ">> \o formatShift(prev))
                           /\ Includes(Descriptions[k], <<"Now:", " ">> \o formatShift(x))
     ELSE of = {}

\* C14: with a previous snapshot, every current shift has a 'New' description
\* if the previous snapshot has no shift of its date, a 'Changed' description
\* with the old and the new content iff start, end or off differ, and none
\* otherwise (so none for a change of the note alone); there are no other
\* descriptions, and the result is null when there is none
C14_ScheduleDiffContent ==
  (diffPc = "scheduleDone" /\ oldData # null) =>
    /\ \A i \in 1..Len(newData.shifts) : ShiftReportedAsClaimed(newData.shifts[i])
    /\ \A k \in 1..Len(Descriptions) :
         \E i \in 1..Len(newData.shifts) : k \in DescriptionsOf(ShiftLabel(newData.shifts[i]))
    /\ diffResult = NullList <=> Len(Descriptions) = 0
    /\ diffResult # <<>>

\* the first date changes its note only and the second its start: one
\* description, of the second date
C14_Witness ==
  /\ diffPc = "scheduleDone"
  /\ oldData # null
  /\ Len(oldData.shifts) = 2
  /\ Len(newData.shifts) = 2
  /\ oldData.shifts[1].note # newData.shifts[1].note
  /\ ~oldData.shifts[1].off
  /\ ~newData.shifts[1].off
  /\ oldData.shifts[2].start # newData.shifts[2].start
  /\ Len(Descriptions) = 1
  /\ StartsWith(Descriptions[1], ShiftLabel(newData.shifts[2]))

\* the records of the current snapshot, and the label of each
CurrentRecords == IF diffPc = "scheduleDone" THEN newData.shifts ELSE newData.entries
CurrentLabel(r) == IF diffPc = "scheduleDone" THEN ShiftLabel(r) ELSE EntryLabel(r)

\* the current records a description belongs to
RecordsOf(k) ==
  { i \in 1..Len(CurrentRecords) : StartsWith(Descriptions[k], CurrentLabel(CurrentRecords[i])) }

\* C15: in the result of either differ every description belongs to exactly one
\* record of the current snapshot, no two to the same, and a description that
\* comes earlier belongs to a record that comes earlier in the current snapshot
C15_CurrentSnapshotOrder ==
  DiffDone =>
    /\ \A k \in 1..Len(Descriptions) : Cardinality(RecordsOf(k)) = 1
    /\ \A k, l \in 1..Len(Descriptions) :
         k < l => \A i \in RecordsOf(k), j \in RecordsOf(l) : i < j

\* two descriptions: the first date is new, the second changed, while the
\* previous snapshot has the second date only
C15_Witness ==
  /\ diffPc = "scheduleDone"
  /\ oldData # null
  /\ Len(oldData.shifts) = 1
  /\ Len(newData.shifts) = 2
  /\ Len(Descriptions) = 2
  /\ Includes(Descriptions[1], <<"New">>)
  /\ Includes(Descriptions[2], <<"Changed">>)

\* the tracked fields in which two entries differ
Differing(prev, e) == { i \in 1..Len(TrackedFields) : prev[TrackedFields[i]] # e[TrackedFields[i]] }

\* a value as a description shows it
Shown(v) == IF v = NULL THEN <<"---">> ELSE v

\* the line of a tracked field
FieldLine(prev, e, f) ==
  <<"  ">> \o FIELD_LABELS[f] \o <<":", " ">> \o Shown(prev[f]) \o <<" ", "->", " ">> \o Shown(e[f])

\* where a text starts in a description, 0 if nowhere
Position(text, part) ==
  IF Includes(text, part)
  THEN CHOOSE i \in 1..Len(text) :
         /\ i + Len(part) - 1 <= Len(text)
         /\ SubSeq(text, i, i + Len(part) - 1) = part
         /\ \A j \in 1..(i - 1) : SubSeq(text, j, j + Len(part) - 1) # part
  ELSE 0

\* how many lines a description has after its first
LinesAfterFirst(text) == Cardinality({ i \in 1..Len(text) : text[i] = "\n" })

\* what C16 says about one current entry
EntryReportedAsClaimed(e) ==
  LET prev == PreviousOn(oldData.entries, e.date)
      of == DescriptionsOf(EntryLabel(e))
  IN IF prev = null
     THEN /\ Cardinality(of) = 1
          /\ \A k \in of : Descriptions[k] = EntryLabel(e) \o <<" ", "---", " ", "New", " ", "entry">>
     ELSE IF Differing(prev, e) = {} THEN of = {}
     ELSE /\ Cardinality(of) = 1
          /\ \A k \in of :
               /\ Includes(Descriptions[k], <<"Changed">>)
               /\ LinesAfterFirst(Descriptions[k]) = Cardinality(Differing(prev, e))
               /\ \A i \in Differing(prev, e) :
                    /\ Includes(Descriptions[k],
                                <<"\n">> \o FieldLine(prev, e, TrackedFields[i]))
                    /\ ~Includes(Descriptions[k], <<TrackedFields[i]>>)
               /\ \A i, j \in Differing(prev, e) :
                    i < j => Position(Descriptions[k], FieldLine(prev, e, TrackedFields[i]))
                               < Position(Descriptions[k], FieldLine(prev, e, TrackedFields[j]))

----------------------------------------------------------------------------
(* The API response bundles the normaliser is applied to *)

\* how many regular shifts, holiday entries and time-off requests a bundle holds
MaxRegular == 2
MaxHolidays == 2
MaxTimeOff == 2

RegularShift(date, h1, h2) ==
  [startDateTime |-> DateTime(date, h1, 0), endDateTime |-> DateTime(date, h2, 0)]

\* two regular shifts on the first date, one on the second
RegularVariants ==
  { RegularShift(SnapshotDate(1), 9, 14),
    RegularShift(SnapshotDate(1), 10, 18),
    RegularShift(SnapshotDate(2), 9, 14) }

HolidayItem(date, names) ==
  [date |-> date, holidays |-> [i \in 1..Len(names) |-> [displayName |-> names[i]]]]

\* on the first date a holiday entry with two names and one with none, on the
\* third date (which has no regular shift) one with one name
HolidayVariants ==
  { HolidayItem(SnapshotDate(1), << <<"Christmas", " ", "Day">>, <<"Bank", " ", "Holiday">> >>),
    HolidayItem(SnapshotDate(1), <<>>),
    HolidayItem(SnapshotDate(3), << <<"Easter", " ", "Monday">> >>) }

TimeOffRequest(label, status, dates) ==
  [requestSubType |-> [localizedName |-> label],
   currentStatus |-> [name |-> status],
   periods |-> [i \in 1..Len(dates) |-> [startDate |-> dates[i]]]]

\* two requests that share the second date
TimeOffVariants ==
  { TimeOffRequest(<<"Annual", " ", "Leave">>, <<"Approved">>,
                   <<SnapshotDate(1), SnapshotDate(2)>>),
    TimeOffRequest(<<"Sick">>, <<"Submitted">>, <<SnapshotDate(3), SnapshotDate(2)>>) }

RECURSIVE ListsUpTo(_, _)
\* the lists of at most n elements of S
ListsUpTo(S, n) ==
  IF n = 0 THEN { <<>> }
  ELSE LET shorter == ListsUpTo(S, n - 1)
       IN shorter \cup { Append(l, x) : l \in { l \in shorter : Len(l) = n - 1 }, x \in S }

Bundle(regular, holidays, timeOff) ==
  [regularShifts |-> regular, holidayList |-> holidays, timeOffRequests |-> timeOff]

WellFormedBundles ==
  { Bundle(r, h, t) : r \in ListsUpTo(RegularVariants, MaxRegular),
                      h \in ListsUpTo(HolidayVariants, MaxHolidays),
                      t \in ListsUpTo(TimeOffVariants, MaxTimeOff) }

\* obj without its property k
Without(obj, k) == [f \in DOMAIN obj \ {k} |-> obj[f]]

FullBundle ==
  Bundle(<<RegularShift(SnapshotDate(2), 9, 14)>>,
         <<HolidayItem(SnapshotDate(1), << <<"Christmas", " ", "Day">> >>)>>,
         <<TimeOffRequest(<<"Sick">>, <<"Submitted">>, <<SnapshotDate(3)>>)>>)

\* bundles that lack some of the three arrays
BundlesWithMissingArrays ==
  { [f \in present |-> FullBundle[f]] :
      present \in (SUBSET {"regularShifts", "holidayList", "timeOffRequests"})
                    \ { {"regularShifts", "holidayList", "timeOffRequests"} } }

\* bundles with one record that lacks a required property, before or after a
\* well-formed record of its kind
BundlesWithMalformedRecord ==
  LET rs == FullBundle.regularShifts[1]
      tor == FullBundle.timeOffRequests[1]
      badRegular == { Without(rs, "startDateTime"), Without(rs, "endDateTime") }
      badTimeOff == { Without(tor, "requestSubType"), Without(tor, "currentStatus"),
                      Without(tor, "periods") }
  IN { [FullBundle EXCEPT !.regularShifts = l] :
         l \in UNION { { <<b, rs>>, <<rs, b>> } : b \in badRegular } }
     \cup { [FullBundle EXCEPT !.timeOffRequests = l] :
         l \in UNION { { <<b, tor>>, <<tor, b>> } : b \in badTimeOff } }

----------------------------------------------------------------------------
(* mapApiToShifts applied to every bundle, one loop at a time *)

InitMap ==
  /\ RunIdle
  /\ MoreIdle
  /\ FilterIdle
  /\ ParseIdle
  /\ DiffIdle
  /\ DiscIdle
  /\ mapPc = "regular"
  /\ apiResponse \in WellFormedBundles \cup BundlesWithMissingArrays
                       \cup BundlesWithMalformedRecord
  /\ shiftsByDate = <<>>
  /\ shifts = <<>>

\* lines 110-120
MapRegularShifts ==
  /\ mapPc = "regular"
  /\ LET r == RegularLoop(shiftsByDate, ArrayOrEmpty(apiResponse, "regularShifts"))
     IN /\ shiftsByDate' = r.map
        /\ mapPc' = IF r.threw THEN "threw" ELSE "holidays"
  /\ UNCHANGED <<apiResponse, shifts, diffVars, discVars, runVars, filterVars, parseVars, moreVars>>

\* lines 123-139
MapHolidays ==
  /\ mapPc = "holidays"
  /\ shiftsByDate' = HolidayLoop(shiftsByDate, ArrayOrEmpty(apiResponse, "holidayList"))
  /\ mapPc' = "timeOff"
  /\ UNCHANGED <<apiResponse, shifts, diffVars, discVars, runVars, filterVars, parseVars, moreVars>>

\* lines 142-159
MapTimeOffRequests ==
  /\ mapPc = "timeOff"
  /\ LET r == TimeOffLoop(shiftsByDate, ArrayOrEmpty(apiResponse, "timeOffRequests"))
     IN /\ shiftsByDate' = r.map
        /\ mapPc' = IF r.threw THEN "threw" ELSE "sort"
  /\ UNCHANGED <<apiResponse, shifts, diffVars, discVars, runVars, filterVars, parseVars, moreVars>>

\* line 161
MapReturn ==
  /\ mapPc = "sort"
  /\ shifts' = SortByDate(shiftsByDate)
  /\ mapPc' = "returned"
  /\ UNCHANGED <<apiResponse, shiftsByDate, diffVars, discVars, runVars, filterVars, parseVars, moreVars>>

NextMap == MapRegularShifts \/ MapHolidays \/ MapTimeOffRequests \/ MapReturn

SpecMap == InitMap /\ [][NextMap]_vars

\* the loops taken one at a time compute what the function computes
MapStepsAgree ==
  /\ mapPc = "returned" =>
       mapApiToShifts(apiResponse) = [threw |-> FALSE, shifts |-> shifts]
  /\ mapPc = "threw" => mapApiToShifts(apiResponse).threw

----------------------------------------------------------------------------
(* Claims about the normaliser *)

Regulars == ArrayOrEmpty(apiResponse, "regularShifts")
Holidays == ArrayOrEmpty(apiResponse, "holidayList")
TimeOffs == ArrayOrEmpty(apiResponse, "timeOffRequests")

RegularDates == { Regulars[i].startDateTime.date : i \in 1..Len(Regulars) }
HolidayDates == { Holidays[i].date : i \in 1..Len(Holidays) }
TimeOffDates ==
  UNION { { TimeOffs[i].periods[j].startDate : j \in 1..Len(TimeOffs[i].periods) } :
            i \in 1..Len(TimeOffs) }

Max(S) == CHOOSE x \in S : \A y \in S : y <= x
Min(S) == CHOOSE x \in S : \A y \in S : x <= y

\* the last regular shift and the last holiday entry listed for a date
LastRegularOn(d) ==
  Regulars[Max({ i \in 1..Len(Regulars) : Regulars[i].startDateTime.date = d })]
LastHolidayOn(d) == Holidays[Max({ i \in 1..Len(Holidays) : Holidays[i].date = d })]

\* the display name the claim gives a holiday entry
DisplayNameOf(item) ==
  IF Len(item.holidays) = 0 THEN <<"Holiday">> ELSE item.holidays[1].displayName

\* the note of the first time-off period listed for a date
FirstTimeOffNoteOn(d) ==
  LET i == Min({ k \in 1..Len(TimeOffs) :
                   \E j \in 1..Len(TimeOffs[k].periods) :
                     TimeOffs[k].periods[j].startDate = d })
  IN TimeOffs[i].requestSubType.localizedName \o <<" ", "(">>
       \o TimeOffs[i].currentStatus.name \o <<")">>

ShiftsOn(list, d) == { i \in 1..Len(list) : list[i].date = d }

\* C7: the list mapApiToShifts returns is strictly ascending by date and holds
\* exactly one Shift for every date the bundle mentions.
C7_StrictlyAscending ==
  mapPc = "returned" =>
    /\ \A i \in 1..(Len(shifts) - 1) : shifts[i].date < shifts[i + 1].date
    /\ { shifts[i].date : i \in 1..Len(shifts) }
         = RegularDates \cup HolidayDates \cup TimeOffDates

\* three dates were returned from a bundle with two regular shifts on one date
\* whose Map was not in date order
C7_Witness ==
  /\ mapPc = "returned"
  /\ Len(shifts) = 3
  /\ shiftsByDate # shifts
  /\ Len(Regulars) = 2
  /\ Cardinality(RegularDates) = 1

\* C8: a date with a regular shift and a holiday entry gives one Shift with the
\* regular shift's start and end, off = false, and the holiday's display name
\* as note (the first name of the entry, "Holiday" if it has none); a holiday
\* on a date with no regular shift gives off = true with that note.  Where a
\* date is listed more than once, the last regular shift and the last holiday
\* entry of the date are the ones meant.
C8_HolidayAnnotates ==
  mapPc = "returned" =>
    \A d \in HolidayDates :
      /\ Cardinality(ShiftsOn(shifts, d)) = 1
      /\ LET s == shifts[CHOOSE i \in ShiftsOn(shifts, d) : TRUE]
         IN /\ s.note = DisplayNameOf(LastHolidayOn(d))
            /\ IF d \in RegularDates
               THEN /\ s.off = FALSE
                    /\ s.start = formatTime(LastRegularOn(d).startDateTime)
                    /\ s.end = formatTime(LastRegularOn(d).endDateTime)
               ELSE /\ s.off = TRUE
                    /\ s.start = NULL
                    /\ s.end = NULL

\* a date with a regular shift and a holiday entry of two names, and another
\* date with a holiday entry only
C8_Witness ==
  /\ mapPc = "returned"
  /\ \E d \in HolidayDates \cap RegularDates : Len(LastHolidayOn(d).holidays) = 2
  /\ HolidayDates \ RegularDates # {}

\* C9: the time-off loop leaves every Shift its Map already holds unchanged
\* (from a regular shift, a holiday or an earlier time-off period), and adds
\* for each other date of a period an off = true Shift whose note is
\* "<sub-type> (<status>)" of the first period listed for that date.
C9_TimeOffNeverOverwrites ==
  [][ mapPc = "timeOff" =>
        /\ Len(shiftsByDate') >= Len(shiftsByDate)
        /\ \A i \in 1..Len(shiftsByDate) : shiftsByDate'[i] = shiftsByDate[i]
        /\ mapPc' = "sort" =>
             /\ \A j \in (Len(shiftsByDate) + 1)..Len(shiftsByDate') :
                  /\ ShiftsOn(shiftsByDate', shiftsByDate'[j].date) = {j}
                  /\ shiftsByDate'[j] =
                       [date |-> shiftsByDate'[j].date,
                        day |-> dayOfWeek(shiftsByDate'[j].date),
                        start |-> NULL, end |-> NULL, off |-> TRUE,
                        note |-> FirstTimeOffNoteOn(shiftsByDate'[j].date)]
             /\ \A d \in TimeOffDates : ShiftsOn(shiftsByDate', d) # {}
    ]_vars

\* the time-off loop has run over two requests that share a date with no other
\* record, one with a period on a date with a regular shift and one with a
\* period on a date with a holiday
C9_Witness ==
  /\ mapPc = "sort"
  /\ Len(TimeOffs) = 2
  /\ TimeOffDates \cap RegularDates # {}
  /\ TimeOffDates \cap (HolidayDates \ RegularDates) # {}
  /\ TimeOffDates \ (HolidayDates \cup RegularDates) # {}

----------------------------------------------------------------------------
(* detectTimecardDiscrepancy applied to a day's schedule and punches *)

Today == FirstDate
Yesterday == addDays(FirstDate, 0 - 1)

\* a string that is no time
NotATime == <<"a", "b", "c">>

\* scheduled 9:00-17:00 and, around them, punches 51, 50 and 0 minutes early
\* and 50 and 51 minutes late; no punch; a punch that is no time
ClockIns == { NULL, T(8, 9), T(8, 10), T(9, 0), T(9, 50), T(9, 51), NotATime }
ClockOuts == { NULL, T(16, 9), T(16, 10), T(17, 0), T(17, 50), T(17, 51) }

\* today's shift: worked with both times, with a start that is no time, with
\* no end, or a day off
TodayShifts ==
  { Shift(Today, T(9, 0), T(17, 0), FALSE, NULL),
    Shift(Today, NotATime, T(17, 0), FALSE, NULL),
    Shift(Today, T(9, 0), NULL, FALSE, NULL),
    Shift(Today, NULL, NULL, TRUE, <<"Day", " ", "Off">>) }

\* the schedules: yesterday worked or absent, then today's shift or none
DiscSchedules ==
  { [shifts |-> y \o t] :
      y \in { <<>>, <<Shift(Yesterday, T(9, 0), T(17, 0), FALSE, NULL)>> },
      t \in { <<>> } \cup { <<x>> : x \in TodayShifts } }

\* the timecards: yesterday's entry (far from the schedule) or none, then
\* today's entry or none
DiscTimecards ==
  { [entries |-> y \o t] :
      y \in { <<>>, <<Entry(Yesterday, T(12, 0), T(20, 0), NULL, T(8, 0))>> },
      t \in { <<>> } \cup { <<Entry(Today, i, o, NULL, NULL)>> : i \in ClockIns, o \in ClockOuts } }

TimeZones == { "UTC", "east", "west" }

InitDisc ==
  /\ RunIdle
  /\ MoreIdle
  /\ FilterIdle
  /\ ParseIdle
  /\ DiffIdle
  /\ MapIdle
  /\ discPc = "call"
  /\ discSchedule \in DiscSchedules
  /\ discTimecard \in DiscTimecards
  /\ dateOverride = Today
  /\ timeZone \in TimeZones
  /\ discResult = <<>>

ApplyDetectTimecardDiscrepancy ==
  /\ discPc = "call"
  /\ discResult' = detectTimecardDiscrepancy(discSchedule, discTimecard,
                                             LocalMidnight(dateOverride, timeZone))
  /\ discPc' = "done"
  /\ UNCHANGED <<discSchedule, discTimecard, dateOverride, timeZone, diffVars, mapVars, runVars, filterVars, parseVars, moreVars>>

NextDisc == ApplyDetectTimecardDiscrepancy

SpecDisc == InitDisc /\ [][NextDisc]_vars

----------------------------------------------------------------------------
(* Claims about the discrepancy checker *)

\* the shift and the entry the checker compares: the first working shift dated
\* d.toISOString().slice(0, 10) and the first entry dated like the local day
ComparedShifts ==
  { i \in 1..Len(discSchedule.shifts) :
      /\ discSchedule.shifts[i].date = UtcDateOfLocalMidnight(dateOverride, timeZone)
      /\ ~discSchedule.shifts[i].off }
ComparedEntries ==
  { i \in 1..Len(discTimecard.entries) :
      discTimecard.entries[i].date = Mmdd(MonthOf(dateOverride), DayOf(dateOverride)) }
ComparedShift == discSchedule.shifts[Min(ComparedShifts)]
ComparedEntry == discTimecard.entries[Min(ComparedEntries)]
Compares == discPc = "done" /\ ComparedShifts # {} /\ ComparedEntries # {}

\* minutes since midnight of a well-shaped H:MM or HH:MM string
Minutes(t) ==
  IF Len(t) = 4
  THEN DigitVal(t[1]) * 60 + DigitVal(t[3]) * 10 + DigitVal(t[4])
  ELSE (DigitVal(t[1]) * 10 + DigitVal(t[2])) * 60 + DigitVal(t[4]) * 10 + DigitVal(t[5])

IsTime(t) == t # NULL /\ t # NotATime

\* a line of the result names the boundary
HasLine(name) == discResult # NullList /\ Includes(discResult[1], name)

\* C10: for each boundary whose actual and scheduled times are both times, a
\* line is emitted iff they differ by strictly more than 50 minutes, in either
\* direction, whatever the other boundary holds.
C10_ToleranceBoundary ==
  Compares =>
    /\ (IsTime(ComparedEntry.clockIn1) /\ IsTime(ComparedShift.start)) =>
         (HasLine(<<"Clock", " ", "In", ":">>)
            <=> Abs(Minutes(ComparedEntry.clockIn1) - Minutes(ComparedShift.start)) > 50)
    /\ (IsTime(ComparedEntry.clockOut1) /\ IsTime(ComparedShift.end)) =>
         (HasLine(<<"Clock", " ", "Out", ":">>)
            <=> Abs(Minutes(ComparedEntry.clockOut1) - Minutes(ComparedShift.end)) > 50)

\* a clock-in 50 minutes early went unreported while the clock-out of the same
\* day, 51 minutes late, was reported
C10_Witness ==
  /\ Compares
  /\ timeZone = "UTC"
  /\ ComparedShift.start = T(9, 0) /\ ComparedEntry.clockIn1 = T(8, 10)
  /\ ComparedShift.end = T(17, 0) /\ ComparedEntry.clockOut1 = T(17, 51)
  /\ ~HasLine(<<"Clock", " ", "In", ":">>)
  /\ HasLine(<<"Clock", " ", "Out", ":">>)

----------------------------------------------------------------------------
(* The daily runs: run-daily.js started once per trigger, each run starting  *)
(* scrape-all.js and waiting for it to exit.                                 *)

\* how many runs are started
MaxRuns == 3

\* the last calendar date (UTC) the clock reaches
LastDate == addDays(FirstDate, 1)

\* what the portal may show: the shift of the first date, from 9:00 or from 10:00
RunSchedules ==
  { [shifts |-> <<Shift(FirstDate, T(9, 0), T(17, 0), FALSE, NULL)>>],
    [shifts |-> <<Shift(FirstDate, T(10, 0), T(17, 0), FALSE, NULL)>>] }

\* and the punches of the first date: in at 9:00 or at 8:00, out at 17:00
RunTimecards ==
  { [period |-> <<"Last", " ", "2", " ", "Weeks">>,
     entries |-> <<Entry(FirstDate, T(9, 0), T(17, 0), NULL, T(8, 0))>>],
    [period |-> <<"Last", " ", "2", " ", "Weeks">>,
     entries |-> <<Entry(FirstDate, T(8, 0), T(17, 0), NULL, T(9, 0))>>] }

\* the messages the two acquisitions fail with
ScheduleFailure == <<"Schedule", " ", "API", " ", "returned", " ", "500">>
TimecardFailure == <<"Timeout", " ", "30000ms", " ", "exceeded">>

\* the clock at the start of a run: the UTC date does not go back, and the
\* local date is the same, the day before (west) or the day after (east)
Clocks ==
  { [utc |-> u, local |-> addDays(u, k)] :
      u \in { d \in {FirstDate, LastDate} : runs = 0 \/ d >= now.utc },
      k \in {0 - 1, 0, 1} }

\* main of run-daily.js up to the call of runScrapers (lines 431-443), and the
\* start of the scraper process
Start ==
  /\ pc \in {"idle", "done"}
  /\ runs < MaxRuns
  /\ runs' = runs + 1
  /\ now' \in Clocks
  /\ runDate' = now'.utc
  /\ alerts' = <<>>
  /\ prevSchedule' = loadLatest(files, "schedule")
  /\ prevTimecard' = loadLatest(files, "timecard")
  /\ result' = null
  /\ scheduleData' = null
  /\ timecardData' = null
  /\ pc' = "scrape"
  /\ scraperPc' = "login"
  /\ scheduleResult' = Pending
  /\ timecardResult' = Pending
  /\ settled' = <<>>
  /\ stdout' = null
  /\ exitCode' = 0
  /\ UNCHANGED <<files, mail, lastGood, diffVars, mapVars, discVars,
                 filterVars, parseVars, moreVars>>

\* the login of the scraper (lines 296-310 of scrape-all.js): it succeeds and
\* the two acquisitions are started, or it throws and the catch block exits
ScraperLogin ==
  /\ scraperPc = "login"
  /\ \/ /\ scraperPc' = "scraping"
        /\ UNCHANGED <<stdout, exitCode>>
     \/ /\ scraperPc' = "exited"
        /\ stdout' = null
        /\ exitCode' = 1
  /\ UNCHANGED <<scheduleResult, timecardResult, settled, mainVars, diffVars, mapVars, discVars,
                 filterVars, parseVars, moreVars>>

\* scrapeSchedule settles
ScheduleSettles ==
  /\ scraperPc = "scraping"
  /\ scheduleResult = Pending
  /\ scheduleResult' \in { Fulfilled(v) : v \in RunSchedules } \cup { Rejected(ScheduleFailure) }
  /\ settled' = Append(settled, "schedule")
  /\ UNCHANGED <<scraperPc, timecardResult, stdout, exitCode, mainVars, diffVars, mapVars,
                 discVars,
                 filterVars, parseVars, moreVars>>

\* scrapeTimecard settles
TimecardSettles ==
  /\ scraperPc = "scraping"
  /\ timecardResult = Pending
  /\ timecardResult' \in { Fulfilled(v) : v \in RunTimecards } \cup { Rejected(TimecardFailure) }
  /\ settled' = Append(settled, "timecard")
  /\ UNCHANGED <<scraperPc, scheduleResult, stdout, exitCode, mainVars, diffVars, mapVars,
                 discVars,
                 filterVars, parseVars, moreVars>>

\* the continuation of Promise.allSettled (lines 321-348 of scrape-all.js)
ScraperJoin ==
  /\ scraperPc = "scraping"
  /\ scheduleResult # Pending
  /\ timecardResult # Pending
  /\ LET schedule == ValueOrNull(scheduleResult)
         timecard == ValueOrNull(timecardResult)
         output == [schedule |-> schedule, timecard |-> timecard,
                    errors |-> ScraperErrors(scheduleResult, timecardResult)]
     IN /\ stdout' = JSONstringify(output)
        /\ exitCode' = ScraperExitCode(schedule, timecard)
  /\ scraperPc' = "exited"
  /\ UNCHANGED <<scheduleResult, timecardResult, settled, mainVars, diffVars, mapVars, discVars,
                 filterVars, parseVars, moreVars>>

\* runScrapers returns or throws, and the try and catch blocks of main
\* (lines 444-465)
ScraperReturns ==
  /\ pc = "scrape"
  /\ scraperPc = "exited"
  /\ IF exitCode # 0
     THEN /\ alerts' = Append(alerts, ScraperFailedAlert)
          /\ UNCHANGED <<result, scheduleData, timecardData, files>>
     ELSE LET taken == TakeResult(JSONparse(stdout), files, runDate, alerts)
          IN /\ result' = JSONparse(stdout)
             /\ alerts' = taken.alerts
             /\ scheduleData' = taken.scheduleData
             /\ timecardData' = taken.timecardData
             /\ files' = taken.files
  /\ pc' = "detect"
  /\ UNCHANGED <<now, runs, runDate, prevSchedule, prevTimecard, mail, lastGood, scraperVars,
                 diffVars, mapVars, discVars,
                 filterVars, parseVars, moreVars>>

\* the detection block of main (lines 467-487)
Detect ==
  /\ pc = "detect"
  /\ alerts' = alerts \o DetectedAlerts(prevSchedule, prevTimecard, scheduleData,
                                        timecardData, now)
  /\ pc' = "email"
  /\ UNCHANGED <<files, now, runs, runDate, prevSchedule, prevTimecard, result, scheduleData,
                 timecardData, mail, lastGood, scraperVars, diffVars, mapVars, discVars,
                 filterVars, parseVars, moreVars>>

\* per name, the snapshot this run acquired, or else the one remembered
Acquired(r, remembered) == IF r.status = "fulfilled" THEN r.value ELSE remembered

\* the end of main (lines 489-509): the email, delivered or not
Email ==
  /\ pc = "email"
  /\ IF Len(alerts) > 0
     THEN \E delivered \in BOOLEAN :
            /\ mail' = [subject |-> SubjectOf(alerts), body |-> BodyOf(runDate, alerts),
                        delivered |-> delivered]
            /\ files' = AfterSendEmail(files, delivered)
     ELSE /\ mail' = null
          /\ files' = files
  /\ lastGood' = [schedule |-> Acquired(scheduleResult, lastGood.schedule),
                  timecard |-> Acquired(timecardResult, lastGood.timecard)]
  /\ pc' = "done"
  /\ UNCHANGED <<now, runs, runDate, alerts, prevSchedule, prevTimecard, result,
                 scheduleData, timecardData, scraperVars, diffVars, mapVars, discVars,
                 filterVars, parseVars, moreVars>>

Init ==
  /\ DiffIdle
  /\ MapIdle
  /\ DiscIdle
  /\ RunIdle
  /\ MoreIdle
  /\ FilterIdle
  /\ ParseIdle

Next ==
  \/ Start
  \/ ScraperLogin
  \/ ScheduleSettles
  \/ TimecardSettles
  \/ ScraperJoin
  \/ ScraperReturns
  \/ Detect
  \/ Email

Spec == Init /\ [][Next]_vars

----------------------------------------------------------------------------
(* Claims about the daily runs *)

InRun == pc \in {"scrape", "detect", "email"}
AfterScrape == pc \in {"detect", "email", "done"}

ScheduleAcquired == scheduleResult.status = "fulfilled"
TimecardAcquired == timecardResult.status = "fulfilled"

Exists(fs, name, d) == DataFile(name, IsoText(d)) \in DOMAIN fs

\* C3: in every run the previous snapshot of each name is the snapshot of the
\* most recent earlier run that acquired it (none if no run did), also after
\* this run has saved its own; and once a run has acquired a snapshot the
\* latest file of that name holds it
C3_PreviousIsLastAcquired ==
  /\ InRun => /\ prevSchedule = lastGood.schedule
              /\ prevTimecard = lastGood.timecard
  /\ AfterScrape =>
       /\ ScheduleAcquired => loadLatest(files, "schedule") = scheduleResult.value
       /\ TimecardAcquired => loadLatest(files, "timecard") = timecardResult.value

\* a run on the last date, after a run of that date that acquired the timecard
\* but not the schedule: its previous schedule is the one of the first date,
\* and it has just saved a different one
C3_Witness ==
  /\ pc = "detect"
  /\ runDate = LastDate
  /\ prevTimecard # null
  /\ Exists(files, "timecard", LastDate)
  /\ prevSchedule # null
  /\ ScheduleAcquired
  /\ scheduleResult.value # prevSchedule
  /\ TimecardAcquired = FALSE
  /\ Exists(files, "schedule", FirstDate)

Saved(name, d, data) ==
  /\ Exists(files, name, d)
  /\ files[DataFile(name, IsoText(d))] = JSONstringify(data)
  /\ loadLatest(files, name) = data

Alerted(alert) == \E i \in 1..Len(alerts) : alerts[i] = alert

Reported(text) == mail # null /\ Includes(mail.body, text)

\* what is said about a snapshot that was acquired while the other one was not
Survives(name, value, data, changes, title) ==
  /\ exitCode = 0
  /\ stdout # null
  /\ JSONparse(stdout)[name] = value
  /\ AfterScrape => data = value /\ Saved(name, runDate, value)
  /\ pc \in {"email", "done"} /\ changes # NullList => Alerted(formatAlert(title, changes))
  /\ pc = "done" => /\ mail # null
                    /\ changes # NullList => Reported(formatAlert(title, changes))

\* C4: whichever of the two acquisitions settles first, when exactly one of
\* them has failed the scraper prints the other's snapshot and exits normally,
\* and the daily run saves that snapshot, diffs it against the previous one and
\* reports the changes
C4_FailureIsIsolated ==
  scraperPc = "exited" =>
    /\ ScheduleAcquired /\ timecardResult.status = "rejected" =>
         Survives("schedule", scheduleResult.value, scheduleData,
                  detectScheduleChanges(prevSchedule, scheduleResult.value), ScheduleTitle)
    /\ TimecardAcquired /\ scheduleResult.status = "rejected" =>
         Survives("timecard", timecardResult.value, timecardData,
                  detectTimecardChanges(prevTimecard, timecardResult.value), TimecardTitle)

\* the timecard failed first, the schedule was acquired after it and differs
\* from the previous one: the run has reported the changes
C4_Witness ==
  /\ pc = "done"
  /\ settled = <<"timecard", "schedule">>
  /\ timecardResult.status = "rejected"
  /\ ScheduleAcquired
  /\ detectScheduleChanges(prevSchedule, scheduleResult.value) # NullList
  /\ Reported(formatAlert(ScheduleTitle,
                          detectScheduleChanges(prevSchedule, scheduleResult.value)))

\* the messages of the failures of this run, as run-daily.js receives them
FailureMessages ==
  IF exitCode # 0 THEN { CommandFailed }
  ELSE { result.errors[i] : i \in 1..Len(result.errors) }

\* C5: once the scraper has returned, every message of the errors list of its
\* result, or the message of the failed process, is in the alerts (the latter
\* inside its alert), each failed acquisition has such a message, and the run
\* goes on to send an email whose body contains the message
C5_FailuresAreReported ==
  AfterScrape =>
    /\ \A msg \in FailureMessages :
         /\ \E i \in 1..Len(alerts) : Includes(alerts[i], msg)
         /\ exitCode = 0 => Alerted(msg)
         /\ pc = "done" => Reported(msg)
    /\ exitCode = 0 /\ scheduleResult.status = "rejected" =>
         \E msg \in FailureMessages : Includes(msg, scheduleResult.reason)
    /\ exitCode = 0 /\ timecardResult.status = "rejected" =>
         \E msg \in FailureMessages : Includes(msg, timecardResult.reason)
    /\ ~ScheduleAcquired \/ ~TimecardAcquired => FailureMessages # {}

\* the timecard failed, the schedule is as before: the only alert is the
\* message, and the email carries it
C5_Witness ==
  /\ pc = "done"
  /\ timecardResult.status = "rejected"
  /\ ScheduleAcquired
  /\ prevSchedule = scheduleResult.value
  /\ Len(alerts) = 1
  /\ mail # null
  /\ Includes(mail.body, TimecardFailure)

AcquisitionError == ~ScheduleAcquired \/ ~TimecardAcquired

ScheduleDiff ==
  IF ScheduleAcquired THEN detectScheduleChanges(prevSchedule, scheduleResult.value)
  ELSE NullList

Discrepancy ==
  IF ScheduleAcquired /\ TimecardAcquired
  THEN detectTimecardDiscrepancy(scheduleResult.value, timecardResult.value, now)
  ELSE NullList

TimecardDiff ==
  IF TimecardAcquired THEN detectTimecardChanges(prevTimecard, timecardResult.value)
  ELSE NullList

\* C6: a finished run has sent an email iff its alerts are not empty, which is
\* iff an acquisition failed, the schedule diff is not null, the discrepancy is
\* not null or the timecard diff is not null; a run that acquired both with no
\* previous snapshots and no discrepancy has sent nothing
C6_NotifiesIffAlerts ==
  pc = "done" =>
    /\ mail # null <=> Len(alerts) > 0
    /\ Len(alerts) > 0 <=>
         \/ AcquisitionError
         \/ ScheduleDiff # NullList
         \/ Discrepancy # NullList
         \/ TimecardDiff # NullList
    /\ ~AcquisitionError /\ prevSchedule = null /\ prevTimecard = null
         /\ Discrepancy = NullList => mail = null

\* the first run, both acquired, no discrepancy: no email
C6_Witness ==
  /\ pc = "done"
  /\ runs = 1
  /\ ~AcquisitionError
  /\ prevSchedule = null
  /\ prevTimecard = null
  /\ Discrepancy = NullList
  /\ mail = null

\* a later run whose only finding is a change of the timecard has sent one
C6_WitnessTimecardOnly ==
  /\ pc = "done"
  /\ ~AcquisitionError
  /\ ScheduleDiff = NullList
  /\ Discrepancy = NullList
  /\ TimecardDiff # NullList
  /\ mail # null

----------------------------------------------------------------------------
(* The two-week window of the timecard: filterTimecardEntries of scrape-all.js *)

\* new Date(year, monthIndex, day): the calendar date, a day past the end of
\* the month running over into the next one
NewDate(year, month, day) == CivilFromDays(DaysFromCivil(year, month, 1) + day - 1)

\* the mutation: a December entry stays in the year of the reference
resolveEntryDateSameYear(mmdd, referenceDate) ==
  NewDate(YearOf(referenceDate), MmddMonth(mmdd), MmddDay(mmdd))

\* resolveEntryDate(mmdd, referenceDate)
resolveEntryDate(mmdd, referenceDate) ==
  LET mm == MmddMonth(mmdd)
      dd == MmddDay(mmdd)
      year == IF mm = 12 /\ MonthOf(referenceDate) = 1
              THEN YearOf(referenceDate) - 1 ELSE YearOf(referenceDate)
  IN NewDate(year, mm, dd)

\* the days the window reaches back
WindowDays == 14

\* the mutation: the day of the cutoff is outside the window
InWindowAfterCutoff(entryDate, cutoff, ref) == entryDate > cutoff /\ entryDate <= ref

\* entryDate >= cutoff && entryDate <= ref
InWindow(entryDate, cutoff, ref) == entryDate >= cutoff /\ entryDate <= ref

\* the mutation: an entry of a date the Map has is dropped
FilterStepKeepsFirst(byDate, entry, cutoff, ref) ==
  IF InWindow(resolveEntryDate(entry.date, ref), cutoff, ref) /\ ~MapHas(byDate, entry.date)
  THEN MapSet(byDate, entry) ELSE byDate

\* the body of the loop over the entries (lines 81-84)
FilterStep(byDate, entry, cutoff, ref) ==
  IF InWindow(resolveEntryDate(entry.date, ref), cutoff, ref)
  THEN MapSet(byDate, entry) ELSE byDate

RECURSIVE FilterLoop(_, _, _, _)
\* for (const entry of entries) { ... }
FilterLoop(byDate, entries, cutoff, ref) ==
  IF entries = <<>> THEN byDate
  ELSE FilterLoop(FilterStep(byDate, Head(entries), cutoff, ref), Tail(entries), cutoff, ref)

RECURSIVE InsertByResolvedDate(_, _, _)
\* x put into the sorted list after every element whose date is not later
InsertByResolvedDate(sorted, x, ref) ==
  IF sorted = <<>> THEN <<x>>
  ELSE IF resolveEntryDate(x.date, ref) < resolveEntryDate(Head(sorted).date, ref)
       THEN <<x>> \o sorted
       ELSE <<Head(sorted)>> \o InsertByResolvedDate(Tail(sorted), x, ref)

RECURSIVE SortedByResolvedDateFrom(_, _, _)
SortedByResolvedDateFrom(sorted, list, ref) ==
  IF list = <<>> THEN sorted
  ELSE SortedByResolvedDateFrom(InsertByResolvedDate(sorted, Head(list), ref), Tail(list), ref)

\* [...byDate.values()].sort((a, b) => resolveEntryDate(a.date, ref) -
\* resolveEntryDate(b.date, ref)): a stable sort
SortByResolvedDate(list, ref) == SortedByResolvedDateFrom(<<>>, list, ref)

\* filterTimecardEntries(entries, referenceDateStr)
filterTimecardEntries(entries, ref) ==
  LET cutoff == addDays(ref, 0 - WindowDays)
  IN SortByResolvedDate(FilterLoop(<<>>, entries, cutoff, ref), ref)

\* how many entries the two pay periods list together
MaxEntries == 3

\* reference dates: one whose window reaches into the month before, one in
\* January whose window reaches into December, one in December
ReferenceDates == { MkDate(2026, 2, 1), MkDate(2026, 1, 5), MkDate(2026, 12, 20) }

\* the entries listed: of the reference date, of 8, 14 and 15 days before it
\* and of the day after it; of the first two also with other punches
ListedEntries(ref) ==
  { Entry(addDays(ref, k), T(9, 0), T(17, 0), NULL, T(8, 0)) : k \in {0 - 15, 0 - 14, 0 - 8, 0, 1} }
    \cup { Entry(addDays(ref, k), T(8, 0), NULL, NULL, NULL) : k \in {0 - 8, 0} }

InitFilter ==
  /\ DiffIdle
  /\ MapIdle
  /\ DiscIdle
  /\ RunIdle
  /\ MoreIdle
  /\ ParseIdle
  /\ filterPc = "call"
  /\ referenceDateStr \in ReferenceDates
  /\ \E l \in ListsUpTo(ListedEntries(referenceDateStr), MaxEntries) :
       \E k \in 0..Len(l) :
         /\ previousEntries = SubSeq(l, 1, k)
         /\ currentEntries = SubSeq(l, k + 1, Len(l))
  /\ filterResult = <<>>

\* scrapeTimecard, lines 247-250: the previous period first, then the current
ApplyFilterTimecardEntries ==
  /\ filterPc = "call"
  /\ filterResult' = filterTimecardEntries(previousEntries \o currentEntries, referenceDateStr)
  /\ filterPc' = "done"
  /\ UNCHANGED <<previousEntries, currentEntries, referenceDateStr, diffVars, mapVars, discVars,
                 runVars, parseVars, moreVars>>

NextFilter == ApplyFilterTimecardEntries

SpecFilter == InitFilter /\ [][NextFilter]_vars

allEntries == previousEntries \o currentEntries

\* the MM/DD strings of a list of entries
DatesOf(list) == { list[i].date : i \in 1..Len(list) }

\* the calendar dates from 14 days before the reference to the reference
WindowDates == { CivilFromDays(n) :
                   n \in (DayNumber(referenceDateStr) - 14)..DayNumber(referenceDateStr) }

DateInWindow(mmdd) == \E d \in WindowDates : Mmdd(MonthOf(d), DayOf(d)) = mmdd

\* the calendar date of the window that an MM/DD string of the result names
DateNamed(mmdd) == CHOOSE d \in WindowDates : Mmdd(MonthOf(d), DayOf(d)) = mmdd

\* C11: the dates of the result are exactly the listed dates that fall on one
\* of the 15 calendar days from 14 days before the reference to the reference,
\* and every entry of the result is a listed entry
C11_WindowIsInclusive ==
  filterPc = "done" =>
    /\ \A mmdd \in DatesOf(allEntries) : mmdd \in DatesOf(filterResult) <=> DateInWindow(mmdd)
    /\ \A i \in 1..Len(filterResult) : \E j \in 1..Len(allEntries) : filterResult[i] = allEntries[j]

\* reference 2026-02-01: 01/18, 01/17 and 02/02 are listed, 01/18 alone is kept
C11_Witness ==
  /\ filterPc = "done"
  /\ referenceDateStr = MkDate(2026, 2, 1)
  /\ DatesOf(allEntries) = { Mmdd(1, 18), Mmdd(1, 17), Mmdd(2, 2) }
  /\ DatesOf(filterResult) = { Mmdd(1, 18) }

\* C12: a listed December date resolves to the year before the reference
\* exactly when the reference is in January, every other date to the year of
\* the reference; and the result is ascending by calendar date, so that with a
\* reference in January no January entry comes before a December entry
C12_YearBoundary ==
  filterPc = "done" =>
    /\ \A mmdd \in DatesOf(allEntries) :
         YearOf(resolveEntryDate(mmdd, referenceDateStr)) =
           IF MmddMonth(mmdd) = 12 /\ MonthOf(referenceDateStr) = 1
           THEN YearOf(referenceDateStr) - 1 ELSE YearOf(referenceDateStr)
    /\ \A i, j \in 1..Len(filterResult) :
         i < j => /\ DayNumber(DateNamed(filterResult[i].date))
                       < DayNumber(DateNamed(filterResult[j].date))
                  /\ ~(MonthOf(referenceDateStr) = 1 /\ MmddMonth(filterResult[i].date) = 1
                         /\ MmddMonth(filterResult[j].date) = 12)

\* reference 2026-01-05: 01/05, 12/28 and 12/21 are listed in that order;
\* 12/28 and then 01/05 are returned
C12_Witness ==
  /\ filterPc = "done"
  /\ referenceDateStr = MkDate(2026, 1, 5)
  /\ Len(allEntries) = 3
  /\ allEntries[1].date = Mmdd(1, 5)
  /\ allEntries[2].date = Mmdd(12, 28)
  /\ allEntries[3].date = Mmdd(12, 21)
  /\ Len(filterResult) = 2
  /\ filterResult[1].date = Mmdd(12, 28)
  /\ filterResult[2].date = Mmdd(1, 5)

\* the last entry of a list that carries the date
LastListed(list, mmdd) ==
  list[CHOOSE i \in 1..Len(list) :
         list[i].date = mmdd /\ \A j \in (i + 1)..Len(list) : list[j].date # mmdd]

\* C13: no two entries of the result carry the same MM/DD string, each is the
\* last listed entry of its date, and a date listed in the current period has
\* the entry of the current period
C13_LastOccurrenceWins ==
  filterPc = "done" =>
    /\ \A i, j \in 1..Len(filterResult) : i # j => filterResult[i].date # filterResult[j].date
    /\ \A i \in 1..Len(filterResult) :
         /\ filterResult[i] = LastListed(allEntries, filterResult[i].date)
         /\ filterResult[i].date \in DatesOf(currentEntries) =>
              filterResult[i] = LastListed(currentEntries, filterResult[i].date)

\* the reference date is listed in both periods with different punches, and
\* the result has the entry of the current period
C13_Witness ==
  /\ filterPc = "done"
  /\ Len(previousEntries) = 1
  /\ Len(currentEntries) = 1
  /\ previousEntries[1].date = currentEntries[1].date
  /\ previousEntries[1] # currentEntries[1]
  /\ filterResult = <<currentEntries[1]>>

----------------------------------------------------------------------------
(* More claims about detectTimecardDiscrepancy *)

\* the working shifts of the reference date and the entries of its month/day
ReferenceShifts ==
  { i \in 1..Len(discSchedule.shifts) :
      discSchedule.shifts[i].date = dateOverride /\ ~discSchedule.shifts[i].off }
ReferenceEntries ==
  { i \in 1..Len(discTimecard.entries) :
      discTimecard.entries[i].date = Mmdd(MonthOf(dateOverride), DayOf(dateOverride)) }

Present(v) == v # NULL /\ v # UNDEFINED /\ v # <<>>

\* no working shift of the reference date, or no entry of it, or an entry
\* without either punch
NothingToCompare ==
  \/ ReferenceShifts = {}
  \/ ReferenceEntries = {}
  \/ LET e == discTimecard.entries[Min(ReferenceEntries)]
     IN ~Present(e.clockIn1) /\ ~Present(e.clockOut1)

\* C17: the result is null whenever the schedule has no working shift of the
\* reference date, the timecard has no entry of its month/day, or that entry
\* has neither punch
C17_NullWithoutShiftOrPunch ==
  (discPc = "done" /\ discSchedule # null /\ discTimecard # null /\ NothingToCompare)
    => discResult = NullList

\* the same where the local midnight of the reference date is that date in UTC
C17_NullWithoutShiftOrPunchAtOrWestOfUtc ==
  (discPc = "done" /\ discSchedule # null /\ discTimecard # null /\ NothingToCompare
     /\ timeZone # "east")
    => discResult = NullList

\* a time string that parseTime does not accept
Unparseable(v) == Present(v) /\ parseTime(v) = NullNum

\* C18: a boundary one of whose two times is present and not parseable has no
\* line
C18_UnparseableIsAbsent ==
  Compares =>
    /\ Unparseable(ComparedEntry.clockIn1) \/ Unparseable(ComparedShift.start)
         => ~HasLine(<<"Clock", " ", "In", ":">>)
    /\ Unparseable(ComparedEntry.clockOut1) \/ Unparseable(ComparedShift.end)
         => ~HasLine(<<"Clock", " ", "Out", ":">>)

\* a boundary as C20 wants it reported: both times given and more than 50
\* minutes apart
Wanted(actual, scheduled) ==
  IsTime(actual) /\ IsTime(scheduled) /\ Abs(Minutes(actual) - Minutes(scheduled)) > 50

\* the line of a boundary
LineOf(name, actual, scheduled) ==
  name \o actual \o <<" ", "(", "scheduled", " ">> \o scheduled \o <<",", " ">>
    \o IntToText(Abs(Minutes(actual) - Minutes(scheduled))) \o <<" ", "min", " ", "off", ")">>

AllTimesOrNull ==
  /\ ComparedEntry.clockIn1 # NotATime
  /\ ComparedEntry.clockOut1 # NotATime
  /\ ComparedShift.start # NotATime
  /\ ComparedShift.end # NotATime

----------------------------------------------------------------------------
(* parseTime applied to strings *)

\* how long a string is
MaxTimeLen == 5

\* the characters of the strings
TimeChars == { "0", "2", "5", "9", ":", "a" }

\* a string longer than the bound, of the shape hours:minutes:seconds
WithSeconds == <<"1", "2", ":", "6", "0", ":", "0", "0">>

InitParse ==
  /\ DiffIdle
  /\ MapIdle
  /\ DiscIdle
  /\ RunIdle
  /\ MoreIdle
  /\ FilterIdle
  /\ parsePc = "call"
  /\ parseStr \in { NULL, UNDEFINED, WithSeconds } \cup ListsUpTo(TimeChars, MaxTimeLen)
  /\ parseResult = NullNum

ApplyParseTime ==
  /\ parsePc = "call"
  /\ parseResult' = parseTime(parseStr)
  /\ parsePc' = "done"
  /\ UNCHANGED <<parseStr, diffVars, mapVars, discVars, runVars, filterVars, moreVars>>

NextParse == ApplyParseTime

SpecParse == InitParse /\ [][NextParse]_vars

\* the strings H:MM and HH:MM, as the hour and the minute they name
TimeShapes ==
  { [text |-> IntToText(h) \o <<":">> \o Pad2(mi), hour |-> h, minute |-> mi] :
      h \in 0..99, mi \in 0..99 }
    \cup { [text |-> Pad2(h) \o <<":">> \o Pad2(mi), hour |-> h, minute |-> mi] :
             h \in 0..9, mi \in 0..99 }

\* C19: parseTime returns hour*60+minute, a value in 0..1439, for the strings
\* H:MM and HH:MM with an hour of 0 to 23, and null for every other input
C19_ParseTimeRange ==
  parsePc = "done" =>
    IF \E t \in TimeShapes : t.text = parseStr /\ t.hour <= 23
    THEN /\ \A t \in TimeShapes : t.text = parseStr => parseResult = t.hour * 60 + t.minute
         /\ parseResult \in 0..1439
    ELSE parseResult = NullNum

\* the same with the hour and the minute unrestricted: two digits each at most
C19_ParseTimeAnyTwoDigits ==
  parsePc = "done" =>
    IF \E t \in TimeShapes : t.text = parseStr
    THEN \A t \in TimeShapes : t.text = parseStr => parseResult = t.hour * 60 + t.minute
    ELSE parseResult = NullNum

-----------------------------------------------------------------------------
(* formatShift applied to shifts *)

\* the values a shift read from a snapshot file may carry in a text field:
\* null, a field the file lacks, the empty string, a text
FormatStarts == { NULL, UNDEFINED, <<>>, T(9, 0) }

FormatEnds == { NULL, UNDEFINED, <<>>, T(17, 0) }

FormatNotes == { NULL, UNDEFINED, <<>>, <<"Annual", " ", "Leave">> }

FormatShifts ==
  { Shift(FirstDate, st, en, off, note) :
      st \in FormatStarts, en \in FormatEnds, off \in BOOLEAN, note \in FormatNotes }

InitFormat ==
  /\ DiffIdle
  /\ MapIdle
  /\ DiscIdle
  /\ RunIdle
  /\ FilterIdle
  /\ ParseIdle
  /\ PageIdle
  /\ TextIdle
  /\ formatPc = "call"
  /\ formatArg \in FormatShifts
  /\ formatResult = <<>>

ApplyFormatShift ==
  /\ formatPc = "call"
  /\ formatResult' = formatShift(formatArg)
  /\ formatPc' = "done"
  /\ UNCHANGED <<formatArg, pageVars, textVars, diffVars, mapVars, discVars, runVars,
                 filterVars, parseVars>>

NextFormat == ApplyFormatShift

SpecFormat == InitFormat /\ [][NextFormat]_vars

\* a text field that has something in it
HasText(v) == v \notin { NULL, UNDEFINED, <<>> }

C21_WitnessOneTime ==
  /\ formatPc = "done"
  /\ ~formatArg.off
  /\ formatArg.start = T(9, 0)
  /\ formatArg.end = NULL
  /\ formatResult = <<"Annual", " ", "Leave">>

-----------------------------------------------------------------------------
(* Malformed records and missing arrays in the normaliser *)

\* the records of a bundle that have their required properties
WellFormedRegulars ==
  { r \in { Regulars[i] : i \in 1..Len(Regulars) } :
      Has(r, "startDateTime") /\ Has(r, "endDateTime") }

WellFormedTimeOffs ==
  { t \in { TimeOffs[i] : i \in 1..Len(TimeOffs) } :
      Has(t, "requestSubType") /\ Has(t, "currentStatus") /\ Has(t, "periods") }

\* a record of the bundle lacks a required property
HasMalformedRecord ==
  \/ Cardinality(WellFormedRegulars) # Cardinality({ Regulars[i] : i \in 1..Len(Regulars) })
  \/ Cardinality(WellFormedTimeOffs) # Cardinality({ TimeOffs[i] : i \in 1..Len(TimeOffs) })

\* the dates the well-formed records of the bundle name
WellFormedDates ==
  { r.startDateTime.date : r \in WellFormedRegulars }
    \cup HolidayDates
    \cup UNION { { t.periods[i].startDate : i \in 1..Len(t.periods) } : t \in WellFormedTimeOffs }

\* missing top-level arrays are read as empty: the function returns, and with no
\* array at all it returns the empty list
MissingArraysAreEmpty ==
  /\ mapPc = "threw" => HasMalformedRecord
  /\ mapPc = "returned" /\ DOMAIN apiResponse = {} => shifts = <<>>

\* C22: mapApiToShifts never aborts on a malformed record (a regular shift
\* without startDateTime or endDateTime, a time-off request without
\* requestSubType, currentStatus or periods): it returns, with a Shift for every
\* date the well-formed records of the bundle name; missing top-level arrays are
\* read as empty
C22_NeverAbortsOnBadRecord ==
  /\ mapPc # "threw"
  /\ mapPc = "returned" => \A d \in WellFormedDates : \E i \in 1..Len(shifts) : shifts[i].date = d
  /\ MissingArraysAreEmpty

-----------------------------------------------------------------------------
(* Failed acquisitions, failed emails and the subject of the email *)

\* the latest snapshot of a name is the same after the step
LatestKept(name) == loadLatest(files', name) = loadLatest(files, name)

\* an alert with this title is among the alerts
AlertTitled(title) == \E i \in 1..Len(alerts) : StartsWith(alerts[i], title)

\* the run before this one ended with an email that names a failure of the
\* schedule acquisition or of the whole scraper
PreviousRunLostSchedule ==
  /\ pc = "email"
  /\ mail # null
  /\ \/ Includes(mail.body, <<"Schedule", " ", "scraper", " ", "failed", ":">>)
     \/ Includes(mail.body, <<"Scraper", " ", "FAILED", ":">>)

\* the diff of a name against the last snapshot acquired before this run is
\* among the alerts iff it is not null
DiffedAgainst(changes, title) ==
  IF changes = NullList THEN ~AlertTitled(title) ELSE Alerted(formatAlert(title, changes))

\* C27: a step of a run whose acquisition of a data set has failed (or whose
\* scraper process has failed) leaves the latest snapshot of that data set as
\* it was; such a run has no diff of that data set among its alerts; and a run
\* that acquires the data set diffs it against the last snapshot acquired
\* before, which after a failed run is the one from before the failure
C27_FailedAcquisitionKeepsLatest ==
  /\ [][/\ ~ScheduleAcquired' => LatestKept("schedule")
        /\ ~TimecardAcquired' => LatestKept("timecard")
        /\ exitCode' # 0 => LatestKept("schedule") /\ LatestKept("timecard")]_vars
  /\ [](pc \in {"email", "done"} =>
          /\ ~ScheduleAcquired => ~AlertTitled(ScheduleTitle) /\ ~AlertTitled(MismatchTitle)
          /\ ~TimecardAcquired => ~AlertTitled(TimecardTitle) /\ ~AlertTitled(MismatchTitle))
  /\ [](pc = "email" =>
          /\ ScheduleAcquired =>
               DiffedAgainst(detectScheduleChanges(lastGood.schedule, scheduleResult.value),
                             ScheduleTitle)
          /\ TimecardAcquired =>
               DiffedAgainst(detectTimecardChanges(lastGood.timecard, timecardResult.value),
                             TimecardTitle))

\* the third run acquires a schedule after a run that did not: it reports the
\* changes against the schedule of the first run
C27_Witness ==
  /\ runs = 3
  /\ PreviousRunLostSchedule
  /\ ScheduleAcquired
  /\ lastGood.schedule # null
  /\ lastGood.schedule # scheduleResult.value
  /\ Alerted(formatAlert(ScheduleTitle,
                         detectScheduleChanges(lastGood.schedule, scheduleResult.value)))

\* the email of the run before this one could not be sent
PreviousEmailFailed == pc = "email" /\ mail # null /\ ~mail.delivered

\* C28: the email step ends the run whether or not the email could be sent, and
\* leaves the data directory as it is; after an email that could not be sent
\* the latest files hold what the run acquired; and a following run that
\* acquires the same data has no schedule changes and no timecard changes among
\* its alerts
C28_EmailFailureKeepsSnapshots ==
  /\ [][pc = "email" => pc' = "done" /\ files' = files]_vars
  /\ [](pc = "done" /\ mail # null /\ ~mail.delivered =>
          /\ ScheduleAcquired => loadLatest(files, "schedule") = scheduleResult.value
          /\ TimecardAcquired => loadLatest(files, "timecard") = timecardResult.value)
  /\ [](PreviousEmailFailed =>
          /\ ScheduleAcquired /\ scheduleResult.value = lastGood.schedule =>
               ~AlertTitled(ScheduleTitle)
          /\ TimecardAcquired /\ timecardResult.value = lastGood.timecard =>
               ~AlertTitled(TimecardTitle))

\* the email about the changed schedule could not be sent, and the next run,
\* which acquires the same schedule and timecard, has nothing to report
C28_Witness ==
  /\ PreviousEmailFailed
  /\ Includes(mail.subject, <<"Schedule", " ", "changed">>)
  /\ ScheduleAcquired
  /\ TimecardAcquired
  /\ scheduleResult.value = lastGood.schedule
  /\ timecardResult.value = lastGood.timecard
  /\ loadLatest(files, "schedule") = scheduleResult.value
  /\ alerts = <<>>

\* a message of a failed acquisition is among the alerts
HasAcquisitionError ==
  \E i \in 1..Len(alerts) :
    \/ StartsWith(alerts[i], <<"Schedule", " ", "scraper", " ", "failed", ":">>)
    \/ StartsWith(alerts[i], <<"Timecard", " ", "scraper", " ", "failed", ":">>)
    \/ StartsWith(alerts[i], <<"Scraper", " ", "FAILED", ":">>)

\* C30: the subject of the email of a run whose alerts contain the message of a
\* failed acquisition, or that of the failed scraper process, includes
\* "Scraper error"
C30_SubjectNamesScraperError ==
  pc = "done" /\ HasAcquisitionError =>
    mail # null /\ Includes(mail.subject, <<"Scraper", " ", "error">>)

\* the same for the failure of the whole scraper process alone
C30_SubjectNamesProcessFailure ==
  pc = "done" /\ exitCode # 0 =>
    mail # null /\ Includes(mail.subject, <<"Scraper", " ", "error">>)

-----------------------------------------------------------------------------
(* Records the current snapshot no longer has *)

PreviousRecords == IF diffPc = "scheduleDone" THEN oldData.shifts ELSE oldData.entries

\* the previous records whose date no current record has
RemovedRecords ==
  { r \in { PreviousRecords[i] : i \in 1..Len(PreviousRecords) } :
      \A j \in 1..Len(CurrentRecords) : CurrentRecords[j].date # r.date }

\* every current record is a record of the previous snapshot, as it was
CurrentIsUnchangedSubset ==
  \A j \in 1..Len(CurrentRecords) :
    \E i \in 1..Len(PreviousRecords) : PreviousRecords[i] = CurrentRecords[j]

\* C29: with a previous snapshot, either differ returns at most one description
\* per record of the current snapshot and none that names a date only the
\* previous snapshot has; a current snapshot whose records are all records of
\* the previous one, unchanged, gives null
C29_RemovedIsSilent ==
  DiffDone /\ oldData # null =>
    /\ Len(Descriptions) <= Len(CurrentRecords)
    /\ \A j \in 1..Len(CurrentRecords) :
         Cardinality(DescriptionsOf(CurrentLabel(CurrentRecords[j]))) <= 1
    /\ \A r \in RemovedRecords : DescriptionsOf(CurrentLabel(r)) = {}
    /\ CurrentIsUnchangedSubset => diffResult = NullList

\* the previous schedule has two shifts and the current one only the first of
\* them, unchanged: null
C29_Witness ==
  /\ diffPc = "scheduleDone"
  /\ oldData # null
  /\ Len(oldData.shifts) = 2
  /\ newData.shifts = <<oldData.shifts[1]>>
  /\ RemovedRecords = { oldData.shifts[2] }
  /\ diffResult = NullList

\* the same for a timecard that lost its first entry while the second changed:
\* one description, of the second
C29_WitnessTimecard ==
  /\ diffPc = "timecardDone"
  /\ oldData # null
  /\ Len(oldData.entries) = 2
  /\ Len(newData.entries) = 1
  /\ newData.entries[1].date = oldData.entries[2].date
  /\ Len(Descriptions) = 1
  /\ StartsWith(Descriptions[1], EntryLabel(newData.entries[1]))

-----------------------------------------------------------------------------
(* The timecard acquisition: extractTimecardEntries and scrapeTimecard of    *)
(* scrape-all.js, from the loaded grid on.  An element is its title          *)
(* attribute (null if it has none) and its innerText; a row is its date      *)
(* element, null if the grid has none, and its cell elements by column.      *)

Element(title, innerText) == [title |-> title, innerText |-> innerText]

IsSpace(tok) == tok \in { " ", "\n" }

RECURSIVE TrimStart(_)
TrimStart(text) ==
  IF text # <<>> /\ IsSpace(Head(text)) THEN TrimStart(Tail(text)) ELSE text

RECURSIVE TrimEnd(_)
TrimEnd(text) ==
  IF text # <<>> /\ IsSpace(text[Len(text)]) THEN TrimEnd(SubSeq(text, 1, Len(text) - 1))
  ELSE text

\* s.trim()
Trim(text) == TrimEnd(TrimStart(text))

\* the rows the loop looks for: for (let i = 0; i < 7; i++)
GridRows == 7

\* /(Mon|Tue|Wed|Thu|Fri|Sat|Sun)\s+(\d{2}\/\d{2})/ tried at position i: the
\* day name, white space, and MM/DD
DateMatchAt(text, i) ==
  IF \E n \in 1..7 : text[i] = DAY_NAMES[n]
  THEN LET rest == SubSeq(text, i + 1, Len(text))
           after == TrimStart(rest)
       IN IF Len(after) < Len(rest) /\ Len(after) >= 5
             /\ IsDigit(after[1]) /\ IsDigit(after[2]) /\ after[3] = "/"
             /\ IsDigit(after[4]) /\ IsDigit(after[5])
          THEN [day |-> text[i], date |-> SubSeq(after, 1, 5)]
          ELSE null
  ELSE null

\* dateText.match(...): the leftmost match, null if there is none
DateMatch(text) ==
  IF \E i \in 1..Len(text) : DateMatchAt(text, i) # null
  THEN DateMatchAt(text, CHOOSE i \in 1..Len(text) :
                           /\ DateMatchAt(text, i) # null
                           /\ \A j \in 1..(i - 1) : DateMatchAt(text, j) = null)
  ELSE null

\* the columns of the grid and the property of the entry each one fills
Columns ==
  [schedule |-> "scheduleshift", absence |-> "absence", clockIn1 |-> "inpunch",
   clockOut1 |-> "outpunch", clockIn2 |-> "inpunch2", clockOut2 |-> "outpunch2",
   payCode |-> "name", amount |-> "amount", shiftTotal |-> "workedshifttotal",
   dailyTotal |-> "dailytotal"]

\* col.includes("punch")
PunchColumns == { "inpunch", "outpunch", "inpunch2", "outpunch2" }

RECURSIVE LastPart(_)
\* val.split(";").pop()
LastPart(val) ==
  IF \E i \in 1..Len(val) : val[i] = ";"
  THEN LastPart(SubSeq(val, (CHOOSE i \in 1..Len(val) : val[i] = ";") + 1, Len(val)))
  ELSE val

\* cell(col) of a row
cell(row, col) ==
  IF col \notin DOMAIN row.cells THEN NULL
  ELSE LET el == row.cells[col]
           val == Trim(OrElse(OrElse(el.title, el.innerText), <<>>))
       IN IF col \in PunchColumns /\ (\E i \in 1..Len(val) : val[i] = ";")
          THEN OrElse(Trim(LastPart(val)), NULL)
          ELSE OrElse(val, NULL)

\* the entry pushed for a row whose date matched
RowEntry(row, match) ==
  [date |-> match.date, day |-> match.day,
   schedule |-> cell(row, Columns.schedule), absence |-> cell(row, Columns.absence),
   clockIn1 |-> cell(row, Columns.clockIn1), clockOut1 |-> cell(row, Columns.clockOut1),
   clockIn2 |-> cell(row, Columns.clockIn2), clockOut2 |-> cell(row, Columns.clockOut2),
   payCode |-> cell(row, Columns.payCode), amount |-> cell(row, Columns.amount),
   shiftTotal |-> cell(row, Columns.shiftTotal), dailyTotal |-> cell(row, Columns.dailyTotal)]

\* the mutation: a row that lacks a cell element is skipped
ExtractRowNeedsCells(row) ==
  IF row.date = null THEN <<>>
  ELSE LET match == DateMatch(OrElse(row.date.title, Trim(row.date.innerText)))
       IN IF match = null \/ (\E f \in DOMAIN Columns : Columns[f] \notin DOMAIN row.cells)
          THEN <<>> ELSE <<RowEntry(row, match)>>

\* the body of the loop (lines 174-205): nothing for a row without a date
\* element or whose date text does not match
ExtractRow(row) ==
  IF row.date = null THEN <<>>
  ELSE LET match == DateMatch(OrElse(row.date.title, Trim(row.date.innerText)))
       IN IF match = null THEN <<>> ELSE <<RowEntry(row, match)>>

\* the grid has no element of the rows past its last one
NoRow == [date |-> null, cells |-> <<>>]

RECURSIVE ExtractLoop(_, _)
ExtractLoop(page, i) ==
  IF i > GridRows THEN <<>>
  ELSE ExtractRow(IF i <= Len(page) THEN page[i] ELSE NoRow) \o ExtractLoop(page, i + 1)

\* extractTimecardEntries(page)
extractTimecardEntries(page) == ExtractLoop(page, 1)

\* the grid after the previous pay period was selected, and the outcome when
\* it could not be selected or read
Loaded(page) == [loaded |-> TRUE, rows |-> page]
NotLoaded == [loaded |-> FALSE, rows |-> <<>>]

\* lines 236-245: the entries of the previous period, none when the try block threw
PreviousPeriodEntries(page) ==
  IF page.loaded THEN extractTimecardEntries(page.rows) ELSE <<>>

CouldNotParse == <<"Could", " ", "not", " ", "parse", " ", "timecard", " ", "data">>

\* lines 252-262: how scrapeTimecard settles
TimecardSettlement(entries) ==
  IF Len(entries) = 0 THEN Rejected(CouldNotParse)
  ELSE Fulfilled([period |-> <<"Last", " ", "2", " ", "Weeks">>, entries |-> entries])

\* how many rows a grid shows
MaxRows == 2

\* the text of the date cell of a date: "Fri 02/20"
DateCellText(d) == <<dayOfWeek(d), " ">> \o Mmdd(MonthOf(d), DayOf(d))

\* all the cells of a worked day
FullCells ==
  [c \in { Columns[f] : f \in DOMAIN Columns } |->
     CASE c = "inpunch" -> Element(T(9, 0), T(9, 0))
       [] c = "outpunch" -> Element(T(17, 0), T(17, 0))
       [] c \in { "workedshifttotal", "dailytotal" } -> Element(NULL, T(8, 0))
       [] OTHER -> Element(NULL, <<>>)]

\* a clock-in that was edited, an absence cell that is empty, nothing else
SparseCells ==
  [c \in { "inpunch", "absence" } |->
     IF c = "inpunch" THEN Element(T(8, 55) \o <<";", " ">> \o T(9, 5), <<>>)
     ELSE Element(NULL, <<" ">>)]

\* the rows a grid may show: one without a date element, a totals row, a full
\* row and a sparse row of today, a full row of 20 days ago
GridRowVariants(today) ==
  { [date |-> null, cells |-> FullCells],
    [date |-> Element(NULL, <<"Total">>), cells |-> FullCells],
    [date |-> Element(DateCellText(today), <<>>), cells |-> FullCells],
    [date |-> Element(NULL, <<" ">> \o DateCellText(today) \o <<"\n">>), cells |-> SparseCells],
    [date |-> Element(DateCellText(addDays(today, 0 - 20)), <<>>), cells |-> FullCells] }

InitTimecard ==
  /\ DiffIdle
  /\ MapIdle
  /\ DiscIdle
  /\ RunIdle
  /\ ParseIdle
  /\ FormatIdle
  /\ TextIdle
  /\ filterPc = "current"
  /\ referenceDateStr = FirstDate
  /\ currentPage \in ListsUpTo(GridRowVariants(FirstDate), MaxRows)
  /\ previousPage \in { NotLoaded }
                      \cup { Loaded(l) : l \in ListsUpTo(GridRowVariants(FirstDate), MaxRows) }
  /\ previousEntries = <<>>
  /\ currentEntries = <<>>
  /\ filterResult = <<>>
  /\ timecardOutcome = Pending

\* line 232
ExtractCurrentPeriod ==
  /\ filterPc = "current"
  /\ currentEntries' = extractTimecardEntries(currentPage)
  /\ filterPc' = "previous"
  /\ UNCHANGED <<previousEntries, referenceDateStr, filterResult, pageVars, formatVars,
                 textVars, diffVars, mapVars, discVars, runVars, parseVars>>

\* lines 236-245
ExtractPreviousPeriod ==
  /\ filterPc = "previous"
  /\ previousEntries' = PreviousPeriodEntries(previousPage)
  /\ filterPc' = "filter"
  /\ UNCHANGED <<currentEntries, referenceDateStr, filterResult, pageVars, formatVars,
                 textVars, diffVars, mapVars, discVars, runVars, parseVars>>

\* lines 248-262
FilterAndSettle ==
  /\ filterPc = "filter"
  /\ filterResult' = filterTimecardEntries(previousEntries \o currentEntries, referenceDateStr)
  /\ timecardOutcome' = TimecardSettlement(filterResult')
  /\ filterPc' = "settled"
  /\ UNCHANGED <<previousEntries, currentEntries, referenceDateStr, currentPage, previousPage,
                 formatVars, textVars, diffVars, mapVars, discVars, runVars, parseVars>>

NextTimecard == ExtractCurrentPeriod \/ ExtractPreviousPeriod \/ FilterAndSettle

SpecTimecard == InitTimecard /\ [][NextTimecard]_vars

\* the rows of the two grids, those of the previous period first, none for a
\* previous period that did not load
LoadedRows == previousPage.rows \o currentPage

\* the row shows the date in its date cell
ShowsDate(row, d) ==
  /\ row.date # null
  /\ \/ Includes(Coalesce(row.date.title, <<>>), DateCellText(d))
     \/ row.date.title = NULL /\ Includes(row.date.innerText, DateCellText(d))

\* the dates of the last two weeks that a loaded row shows
RetainedDates ==
  { d \in { addDays(referenceDateStr, 0 - k) : k \in 0..WindowDays } :
      \E i \in 1..Len(LoadedRows) : ShowsDate(LoadedRows[i], d) }

\* the last loaded row that shows the date
LastRowOf(d) ==
  LoadedRows[CHOOSE i \in 1..Len(LoadedRows) :
               /\ ShowsDate(LoadedRows[i], d)
               /\ \A j \in (i + 1)..Len(LoadedRows) : ~ShowsDate(LoadedRows[j], d)]

\* C23: the timecard acquisition fails, with "Could not parse timecard data",
\* only when no row of the two grids shows a date of the last two weeks;
\* otherwise it is fulfilled with one entry per such date, whatever rows lack a
\* date element or show no date, whatever cells are missing (their fields are
\* null) and whether or not the previous period loaded
C23_FailsOnlyWithoutEntries ==
  filterPc = "settled" =>
    /\ timecardOutcome.status = "rejected" <=> RetainedDates = {}
    /\ timecardOutcome.status = "rejected" => timecardOutcome.reason = CouldNotParse
    /\ timecardOutcome.status = "fulfilled" =>
         /\ Len(timecardOutcome.value.entries) = Cardinality(RetainedDates)
         /\ \A d \in RetainedDates :
              \E i \in 1..Len(timecardOutcome.value.entries) :
                LET e == timecardOutcome.value.entries[i]
                IN /\ e.date = Mmdd(MonthOf(d), DayOf(d))
                   /\ \A f \in DOMAIN Columns :
                        Columns[f] \notin DOMAIN LastRowOf(d).cells => e[f] = NULL

\* the previous period did not load, the current grid has a row without a date
\* element and a sparse row of today: one entry, with the last clock-in and
\* null for the cells the row lacks
C23_Witness ==
  /\ filterPc = "settled"
  /\ previousPage = NotLoaded
  /\ Len(currentPage) = 2
  /\ currentPage[1].date = null
  /\ currentPage[2].cells = SparseCells
  /\ timecardOutcome.status = "fulfilled"
  /\ Len(timecardOutcome.value.entries) = 1
  /\ timecardOutcome.value.entries[1].clockIn1 = T(9, 5)
  /\ timecardOutcome.value.entries[1].clockOut1 = NULL
  /\ timecardOutcome.value.entries[1].absence = NULL

\* both grids loaded and every row is a totals row or 20 days old: rejected
C23_WitnessRejected ==
  /\ filterPc = "settled"
  /\ previousPage.loaded
  /\ Len(currentPage) = 2
  /\ Len(previousEntries) = 1
  /\ timecardOutcome = Rejected(CouldNotParse)

-----------------------------------------------------------------------------
(* The schedule page read as text: parseDaysFromText of scrape-schedule.js.  *)
(* The text is a sequence of characters.                                     *)

RECURSIVE Split(_)
\* text.split("\n")
Split(text) ==
  IF \E i \in 1..Len(text) : text[i] = "\n"
  THEN LET i == CHOOSE k \in 1..Len(text) :
                  text[k] = "\n" /\ \A j \in 1..(k - 1) : text[j] # "\n"
       IN <<SubSeq(text, 1, i - 1)>> \o Split(SubSeq(text, i + 1, Len(text)))
  ELSE <<text>>

RECURSIVE TrimmedLines(_)
\* .map((l) => l.trim()).filter(Boolean)
TrimmedLines(list) ==
  IF list = <<>> THEN <<>>
  ELSE (IF Trim(Head(list)) = <<>> THEN <<>> ELSE <<Trim(Head(list))>>)
       \o TrimmedLines(Tail(list))

\* dayNames, one character per element
dayNames ==
  << <<"M", "o", "n">>, <<"T", "u", "e">>, <<"W", "e", "d">>, <<"T", "h", "u">>, <<"F", "r", "i">>, <<"S", "a", "t">>, <<"S", "u", "n">> >>

\* dayNames.includes(line)
IsDayName(line) == \E n \in 1..7 : dayNames[n] = line

\* \w
IsWordChar(c) ==
  c \in { "a", "b", "c", "d", "e", "f", "g", "h", "i", "j", "k", "l", "m", "n", "o", "p",
          "q", "r", "s", "t", "u", "v", "w", "x", "y", "z",
          "A", "B", "C", "D", "E", "F", "G", "H", "I", "J", "K", "L", "M", "N", "O", "P",
          "Q", "R", "S", "T", "U", "V", "W", "X", "Y", "Z",
          "0", "1", "2", "3", "4", "5", "6", "7", "8", "9", "_" }

\* /^\d{1,2}$/.test(line)
IsDayNumber(line) == Len(line) \in 1..2 /\ \A i \in 1..Len(line) : IsDigit(line[i])

RECURSIVE SkipWord(_)
\* what is left after \w*
SkipWord(text) ==
  IF text # <<>> /\ IsWordChar(Head(text)) THEN SkipWord(Tail(text)) ELSE text

\* what is left after ,?
SkipComma(text) == IF text # <<>> /\ Head(text) = "," THEN Tail(text) ELSE text

\* the one or two digits \d{1,2} takes at the start of the text
LeadingDigits(text) ==
  IF Len(text) >= 2 /\ IsDigit(text[1]) /\ IsDigit(text[2]) THEN SubSeq(text, 1, 2)
  ELSE IF Len(text) >= 1 /\ IsDigit(text[1]) THEN SubSeq(text, 1, 1)
  ELSE <<>>

\* line.match(/^(Mon|Tue|Wed|Thu|Fri|Sat|Sun)\s+(\d{1,2})$/): the two groups,
\* null when the line does not match
sameLine(line) ==
  IF Len(line) >= 3 /\ IsDayName(SubSeq(line, 1, 3))
  THEN LET rest == SubSeq(line, 4, Len(line))
           digits == TrimStart(rest)
       IN IF Len(digits) < Len(rest) /\ IsDayNumber(digits)
          THEN [day |-> SubSeq(line, 1, 3), dateNum |-> digits]
          ELSE null
  ELSE null

\* line.match(/^(Mon|Tue|Wed|Thu|Fri|Sat|Sun)\w*,?\s+\w+\s+(\d{1,2})/): the rest
\* of the weekday word, an optional comma, white space, a word, white space
\* and one or two digits, whatever follows them
longDate(line) ==
  IF Len(line) >= 3 /\ IsDayName(SubSeq(line, 1, 3))
  THEN LET afterDay == SkipComma(SkipWord(SubSeq(line, 4, Len(line))))
           word == TrimStart(afterDay)
           afterWord == SkipWord(word)
           digits == TrimStart(afterWord)
       IN IF /\ Len(word) < Len(afterDay)
             /\ Len(afterWord) < Len(word)
             /\ Len(digits) < Len(afterWord)
             /\ LeadingDigits(digits) # <<>>
          THEN [day |-> SubSeq(line, 1, 3), dateNum |-> LeadingDigits(digits)]
          ELSE null
  ELSE null

\* { day, dateNum: parseInt(...), details: [] }
RawDay(day, digits) == [day |-> day, dateNum |-> DigitsToInt(digits), details |-> <<>>]

\* if (current) days.push(current)
PushCurrent(days, current) == IF current = null THEN days ELSE Append(days, current)

TodayLine == <<"T", "o", "d", "a", "y">>

\* the mutation: the line "Today" is a detail like any other
AccumulateDetailWithToday(current, line) ==
  IF current = null THEN current
  ELSE [current EXCEPT !.details = Append(@, line)]

\* lines 83-86
AccumulateDetail(current, line) ==
  IF current = null \/ line = TodayLine THEN current
  ELSE [current EXCEPT !.details = Append(@, line)]

RECURSIVE ParseLoop(_, _, _, _)
\* the loop over the lines (lines 45-87) and the last push (line 88)
ParseLoop(lines, i, days, current) ==
  IF i > Len(lines) THEN PushCurrent(days, current)
  ELSE IF IsDayName(lines[i]) /\ i + 1 <= Len(lines) /\ IsDayNumber(lines[i + 1])
  THEN ParseLoop(lines, i + 2, PushCurrent(days, current), RawDay(lines[i], lines[i + 1]))
  ELSE IF sameLine(lines[i]) # null
  THEN ParseLoop(lines, i + 1, PushCurrent(days, current),
                 RawDay(sameLine(lines[i]).day, sameLine(lines[i]).dateNum))
  ELSE IF longDate(lines[i]) # null
  THEN ParseLoop(lines, i + 1, PushCurrent(days, current),
                 RawDay(longDate(lines[i]).day, longDate(lines[i]).dateNum))
  ELSE ParseLoop(lines, i + 1, days, AccumulateDetail(current, lines[i]))

\* parseDaysFromText(text)
parseDaysFromText(text) == ParseLoop(TrimmedLines(Split(text)), 1, <<>>, null)

\* how many lines a text has
MaxLines == 4

\* the lines of the texts, each with what it is: a weekday alone, a day number
\* alone, a boundary with its weekday and day number, the line "Today", a blank
\* line, or any other line
PageLines ==
  { [raw |-> <<"M", "o", "n">>, is |-> "weekday"],
    [raw |-> <<"2", "1">>, is |-> "number"],
    [raw |-> <<"T", "u", "e", " ", "2", "2">>, is |-> "boundary", day |-> <<"T", "u", "e">>, dateNum |-> 22],
    [raw |-> <<" ", "T", "h", "u", " ", " ", "5", " ">>, is |-> "boundary", day |-> <<"T", "h", "u">>, dateNum |-> 5],
    [raw |-> <<"W", "e", "d", "n", "e", "s", "d", "a", "y", ",", " ", "M", "a", "y", " ", "3">>, is |-> "boundary", day |-> <<"W", "e", "d">>, dateNum |-> 3],
    [raw |-> <<"S", "u", "n", " ", "1", "2", "3">>, is |-> "other"],
    [raw |-> <<" ", "O", "f", "f">>, is |-> "other"],
    [raw |-> <<"T", "o", "d", "a", "y">>, is |-> "today"],
    [raw |-> <<" ">>, is |-> "blank"] }

InitDays ==
  /\ DiffIdle
  /\ MapIdle
  /\ DiscIdle
  /\ RunIdle
  /\ FilterIdle
  /\ ParseIdle
  /\ FormatIdle
  /\ PageIdle
  /\ textPc = "parse"
  /\ \E l \in ListsUpTo({ x.raw : x \in PageLines }, MaxLines) : pageText = Join(l, <<"\n">>)
  /\ rawDays = <<>>
  /\ lookupToday = 0
  /\ lookupZone = "UTC"
  /\ weekOffset = 0
  /\ dateLookup = <<>>
  /\ allShifts = <<>>

ApplyParseDaysFromText ==
  /\ textPc = "parse"
  /\ rawDays' = parseDaysFromText(pageText)
  /\ textPc' = "parsed"
  /\ UNCHANGED <<pageText, lookupToday, lookupZone, weekOffset, dateLookup, allShifts,
                 formatVars, pageVars, diffVars, mapVars, discVars, runVars, filterVars,
                 parseVars>>

NextDays == ApplyParseDaysFromText

SpecDays == InitDays /\ [][NextDays]_vars

\* the positions of the line breaks of the text, with the two ends
Breaks == { 0, Len(pageText) + 1 } \cup { i \in 1..Len(pageText) : pageText[i] = "\n" }

\* the lines of the text from the first to the last, as PageLines names them,
\* without the blank ones
NamedLines ==
  LET NthBreak(n) == CHOOSE b \in Breaks : Cardinality({ c \in Breaks : c < b }) = n - 1
      Line(n) == SubSeq(pageText, NthBreak(n) + 1, NthBreak(n + 1) - 1)
      Named(n) == IF Line(n) = <<>> THEN [raw |-> <<>>, is |-> "blank"]
                  ELSE CHOOSE x \in PageLines : x.raw = Line(n)
      all == [n \in 1..(Cardinality(Breaks) - 1) |-> Named(n)]
  IN SelectSeq(all, LAMBDA x : x.is # "blank")

\* the line opens a day: a boundary on one line, or a weekday with a day number
\* on the next line
OpensDay(lines, n) ==
  \/ lines[n].is = "boundary"
  \/ lines[n].is = "weekday" /\ n < Len(lines) /\ lines[n + 1].is = "number"

\* the line is the day number of the weekday before it
ClosesBoundary(lines, n) ==
  lines[n].is = "number" /\ n > 1 /\ OpensDay(lines, n - 1) /\ lines[n - 1].is = "weekday"

\* the positions of the lines that open a day, and the k-th of them
Openings(lines) == { n \in 1..Len(lines) : OpensDay(lines, n) }
Opening(lines, k) ==
  CHOOSE n \in Openings(lines) : Cardinality({ m \in Openings(lines) : m < n }) = k - 1

\* the detail lines of the day opened at n: the lines up to the next opening
\* that are neither the day number of n nor "Today"
DetailsAfter(lines, n) ==
  LET next == IF \E m \in Openings(lines) : m > n
              THEN CHOOSE m \in Openings(lines) :
                     m > n /\ \A o \in Openings(lines) : o > n => m <= o
              ELSE Len(lines) + 1
      kept == { m \in (n + 1)..(next - 1) :
                  ~ClosesBoundary(lines, m) /\ lines[m].is # "today" }
      Kth(k) == CHOOSE m \in kept : Cardinality({ o \in kept : o < m }) = k - 1
  IN [k \in 1..Cardinality(kept) |-> Trim(lines[Kth(k)].raw)]

C24_WitnessNoBoundary ==
  /\ textPc = "parsed"
  /\ Len(NamedLines) = 4
  /\ Openings(NamedLines) = {}
  /\ rawDays = <<>>

-----------------------------------------------------------------------------
(* The date lookup of a week: buildDateLookupForWeek of scrape-schedule.js.  *)
(* A Date at local midnight is the pair of its UTC date and its local date.  *)

WEEKS_TO_FETCH == 6

\* formatDate(d) of scrape-schedule.js: d.toISOString().split("T")[0], the UTC date
formatDateUtc(d) == d.utc

\* dayNameMap, one character per element
dayNameMap ==
  << <<"S", "u", "n">>, <<"M", "o", "n">>, <<"T", "u", "e">>, <<"W", "e", "d">>, <<"T", "h", "u">>, <<"F", "r", "i">>, <<"S", "a", "t">> >>

\* `${day}_${dateNum}`
LookupKey(day, dateNum) == day \o <<"_">> \o IntToText(dateNum)

\* `${dayNameMap[d.getDay()]}_${d.getDate()}`: the weekday and the day of the
\* month of the local date
KeyOfDate(d) == LookupKey(dayNameMap[getDay(d.local) + 1], DayOf(d.local))

\* lookup.has(key) and lookup.get(key), undefined for a key the Map lacks
LookupHas(lookup, key) == \E i \in 1..Len(lookup) : lookup[i].key = key
LookupGet(lookup, key) ==
  IF LookupHas(lookup, key)
  THEN lookup[CHOOSE i \in 1..Len(lookup) : lookup[i].key = key].value
  ELSE 0

\* the days the window reaches before and after the reference date
WindowReach == 10

\* lines 28-32: the first date of a key keeps it
LookupStep(lookup, d) ==
  IF LookupHas(lookup, KeyOfDate(d)) THEN lookup
  ELSE Append(lookup, [key |-> KeyOfDate(d), value |-> formatDateUtc(d)])

RECURSIVE LookupLoop(_, _, _, _)
\* for (let i = -10; i <= 10; i++) { ... }
LookupLoop(lookup, refDate, tz, i) ==
  IF i > WindowReach THEN lookup
  ELSE LookupLoop(LookupStep(lookup, LocalMidnight(addDays(refDate, i), tz)), refDate, tz, i + 1)

\* buildDateLookupForWeek(weekOffset), today being the local date of the call
buildDateLookupForWeek(today, tz, w) ==
  LookupLoop(<<>>, addDays(today, w * 7), tz, 0 - WindowReach)

\* the dates a run may be started on: the days from 1 January 2026 on
MaxRunDays == 90

InitLookup ==
  /\ DiffIdle
  /\ MapIdle
  /\ DiscIdle
  /\ RunIdle
  /\ FilterIdle
  /\ ParseIdle
  /\ FormatIdle
  /\ PageIdle
  /\ textPc = "lookup"
  /\ pageText = <<>>
  /\ rawDays = <<>>
  /\ lookupToday \in { addDays(MkDate(2026, 1, 1), k) : k \in 0..MaxRunDays }
  /\ lookupZone \in TimeZones
  /\ weekOffset \in 0..(WEEKS_TO_FETCH - 1)
  /\ dateLookup = <<>>
  /\ allShifts = <<>>

ApplyBuildDateLookupForWeek ==
  /\ textPc = "lookup"
  /\ dateLookup' = buildDateLookupForWeek(lookupToday, lookupZone, weekOffset)
  /\ textPc' = "built"
  /\ UNCHANGED <<pageText, rawDays, lookupToday, lookupZone, weekOffset, allShifts,
                 formatVars, pageVars, diffVars, mapVars, discVars, runVars, filterVars,
                 parseVars>>

NextLookup == ApplyBuildDateLookupForWeek

SpecLookup == InitLookup /\ [][NextLookup]_vars

\* the calendar dates of the window, and those of the week
WindowOfWeek == { addDays(lookupToday, 7 * weekOffset + k) : k \in (0 - 10)..10 }
DatesOfWeek == { addDays(lookupToday, 7 * weekOffset + k) : k \in 0..6 }

\* the weekday and the day of the month of a calendar date, as a key
KeyOfCalendarDate(date) ==
  LookupKey(dayNameMap[((DayNumber(date) + 4) % 7) + 1], DayOf(date))

\* the 21 dates of the window have 21 different keys, and the lookup has 21 entries
WindowKeysDistinct ==
  textPc = "built" =>
    /\ \A d, e \in WindowOfWeek : d # e => KeyOfCalendarDate(d) # KeyOfCalendarDate(e)
    /\ Len(dateLookup) = 21

\* C25: for every run date and every week offset 0..5 the 21 dates of the
\* window have pairwise distinct (weekday, day of the month) keys, the lookup
\* has exactly 21 entries, and each of the seven dates of the week is resolved
\* from its key to itself
C25_WeekResolvesToItself ==
  /\ WindowKeysDistinct
  /\ textPc = "built" =>
       \A d \in DatesOfWeek : LookupGet(dateLookup, KeyOfCalendarDate(d)) = d

\* the same at or west of UTC
C25_WeekResolvesToItselfAtOrWestOfUtc ==
  /\ WindowKeysDistinct
  /\ textPc = "built" /\ lookupZone # "east" =>
       \A d \in DatesOfWeek : LookupGet(dateLookup, KeyOfCalendarDate(d)) = d

-----------------------------------------------------------------------------
(* The shift of a parsed day: the loop over rawDays in main of               *)
(* scrape-schedule.js (lines 232-271).  The en dash is the character "--",   *)
(* the ideograph of the off vocabulary the character "U+4F11".               *)

UpperCase ==
  <<"A", "B", "C", "D", "E", "F", "G", "H", "I", "J", "K", "L", "M", "N", "O", "P", "Q", "R",
    "S", "T", "U", "V", "W", "X", "Y", "Z">>

LowerCase ==
  <<"a", "b", "c", "d", "e", "f", "g", "h", "i", "j", "k", "l", "m", "n", "o", "p", "q", "r",
    "s", "t", "u", "v", "w", "x", "y", "z">>

\* the character as the flag i compares it
Fold(c) ==
  IF \E n \in 1..26 : UpperCase[n] = c
  THEN LowerCase[CHOOSE n \in 1..26 : UpperCase[n] = c]
  ELSE c

FoldText(text) == [i \in 1..Len(text) |-> Fold(text[i])]

\* the alternatives of offPatterns, folded, and whether \b follows
offPatterns ==
  { [word |-> <<"d", "a", "y", " ", "o", "f", "f">>, boundary |-> FALSE],
    [word |-> <<"n", "o", "t", "h", "i", "n", "g", " ", "p", "l", "a", "n", "n", "e", "d">>, boundary |-> FALSE],
    [word |-> <<"s", "c", "h", "e", "d", "u", "l", "e", "d", " ", "o", "f", "f">>, boundary |-> FALSE],
    [word |-> <<"n", "o", " ", "s", "h", "i", "f", "t">>, boundary |-> FALSE],
    [word |-> <<"o", "f", "f", " ", "d", "a", "y">>, boundary |-> FALSE],
    [word |-> <<"r", "o", "i">>, boundary |-> TRUE],
    [word |-> <<"t", "o", "r">>, boundary |-> TRUE],
    [word |-> <<"p", "t", "o">>, boundary |-> TRUE],
    [word |-> <<"a", "n", "n", "u", "a", "l", " ", "l", "e", "a", "v", "e">>, boundary |-> FALSE],
    [word |-> <<"l", "e", "a", "v", "e">>, boundary |-> FALSE],
    [word |-> <<"U+4F11">>, boundary |-> FALSE],
    [word |-> <<"a", "b", "s", "e", "n", "c", "e">>, boundary |-> FALSE],
    [word |-> <<"h", "o", "l", "i", "d", "a", "y">>, boundary |-> FALSE] }

\* offPatterns.test(d)
OffTest(d) ==
  \E p \in offPatterns : \E i \in 0..(Len(d) - Len(p.word)) :
    /\ SubSeq(FoldText(d), i + 1, i + Len(p.word)) = p.word
    /\ p.boundary => (i + Len(p.word) = Len(d) \/ ~IsWordChar(d[i + Len(p.word) + 1]))

\* how many characters \d{1,2}:\d{2} takes at position i, 0 if it does not match
TimeLengthAt(text, i) ==
  IF i + 4 <= Len(text) /\ IsDigit(text[i]) /\ IsDigit(text[i + 1]) /\ text[i + 2] = ":"
     /\ IsDigit(text[i + 3]) /\ IsDigit(text[i + 4]) THEN 5
  ELSE IF i + 3 <= Len(text) /\ IsDigit(text[i]) /\ text[i + 1] = ":"
          /\ IsDigit(text[i + 2]) /\ IsDigit(text[i + 3]) THEN 4
  ELSE 0

RECURSIVE SkipSpaces(_, _)
\* the position after \s* from position i
SkipSpaces(text, i) ==
  IF i <= Len(text) /\ IsSpace(text[i]) THEN SkipSpaces(text, i + 1) ELSE i

\* /(\d{1,2}:\d{2})\s*[--\-]\s*(\d{1,2}:\d{2})/ tried at position i
TimeRangeAt(text, i) ==
  LET n1 == TimeLengthAt(text, i)
      dash == SkipSpaces(text, i + n1)
      second == SkipSpaces(text, dash + 1)
  IN IF n1 > 0 /\ dash <= Len(text) /\ text[dash] \in { "--", "-" }
        /\ TimeLengthAt(text, second) > 0
     THEN [start |-> SubSeq(text, i, i + n1 - 1),
           end |-> SubSeq(text, second, second + TimeLengthAt(text, second) - 1)]
     ELSE null

\* detailText.match(...): the leftmost match, null if there is none
timeMatch(text) ==
  IF \E i \in 1..Len(text) : TimeRangeAt(text, i) # null
  THEN TimeRangeAt(text, CHOOSE i \in 1..Len(text) :
                           /\ TimeRangeAt(text, i) # null
                           /\ \A j \in 1..(i - 1) : TimeRangeAt(text, j) = null)
  ELSE null

\* the mutation: a day with a time range is not off
isOffWithoutTimes(details) ==
  /\ \E i \in 1..Len(details) : OffTest(details[i])
  /\ timeMatch(Join(details, <<" ">>)) = null

\* rawDay.details.some((d) => offPatterns.test(d))
isOff(details) == \E i \in 1..Len(details) : OffTest(details[i])

\* rawDay.details.find((d) => offPatterns.test(d)) || null
offDetail(details) ==
  IF \E i \in 1..Len(details) : OffTest(details[i])
  THEN OrElse(details[CHOOSE i \in 1..Len(details) :
                        OffTest(details[i]) /\ \A j \in 1..(i - 1) : ~OffTest(details[j])],
              NULL)
  ELSE NULL

\* lines 242-270: the shift pushed for a day whose date was resolved
ShiftOfDay(rawDay, fullDate) ==
  LET tm == timeMatch(Join(rawDay.details, <<" ">>))
      off == isOff(rawDay.details)
  IN [date |-> fullDate, day |-> rawDay.day,
      start |-> IF tm # null THEN tm.start ELSE NULL,
      end |-> IF tm # null THEN tm.end ELSE NULL,
      off |-> off,
      note |-> IF off THEN offDetail(rawDay.details)
               ELSE IF tm = null /\ Len(rawDay.details) > 0
                    THEN Join(rawDay.details, <<" ", "|", " ">>)
                    ELSE NULL]

RECURSIVE PushShifts(_, _, _)
\* for (const rawDay of rawDays) { ... }: a day whose key the lookup lacks is skipped
PushShifts(pushed, days, lookup) ==
  IF days = <<>> THEN pushed
  ELSE LET rawDay == Head(days)
           fullDate == LookupGet(lookup, LookupKey(rawDay.day, rawDay.dateNum))
       IN PushShifts(IF fullDate = 0 THEN pushed
                     ELSE Append(pushed, ShiftOfDay(rawDay, fullDate)),
                     Tail(days), lookup)

\* how many detail lines a day has
MaxDetails == 3

\* the detail lines, each with whether it belongs to the off vocabulary and
\* the time range it holds
DetailLines ==
  { [raw |-> <<"9", ":", "0", "0", "-", "1", "7", ":", "0", "0">>, off |-> FALSE, start |-> <<"9", ":", "0", "0">>, end |-> <<"1", "7", ":", "0", "0">>],
    [raw |-> <<"1", "0", ":", "0", "0", " ", "--", " ", "1", "8", ":", "3", "0">>, off |-> FALSE, start |-> <<"1", "0", ":", "0", "0">>, end |-> <<"1", "8", ":", "3", "0">>],
    [raw |-> <<"9", ":", "0", "0">>, off |-> FALSE, start |-> NULL, end |-> NULL],
    [raw |-> <<"S", "t", "o", "r", "e", " ", "1", "2">>, off |-> FALSE, start |-> NULL, end |-> NULL],
    [raw |-> <<"D", "a", "y", " ", "O", "f", "f">>, off |-> TRUE, start |-> NULL, end |-> NULL],
    [raw |-> <<"a", "n", "n", "u", "a", "l", " ", "l", "e", "a", "v", "e">>, off |-> TRUE, start |-> NULL, end |-> NULL],
    [raw |-> <<"R", "O", "I", " ", "(", "F", "u", "l", "l", ")">>, off |-> TRUE, start |-> NULL, end |-> NULL],
    [raw |-> <<"R", "O", "I", "s">>, off |-> FALSE, start |-> NULL, end |-> NULL] }

\* the day of the run, and the days parsed: the day of the run, or the 31st of
\* its weekday, which the lookup of the week does not have
ClassifyDate == MkDate(2026, 2, 20)

ParsedDays ==
  { [day |-> dayNameMap[getDay(ClassifyDate) + 1], dateNum |-> n, details |-> l] :
      n \in { DayOf(ClassifyDate), 31 },
      l \in ListsUpTo({ x.raw : x \in DetailLines }, MaxDetails) }

InitClassify ==
  /\ DiffIdle
  /\ MapIdle
  /\ DiscIdle
  /\ RunIdle
  /\ FilterIdle
  /\ ParseIdle
  /\ FormatIdle
  /\ PageIdle
  /\ textPc = "classify"
  /\ pageText = <<>>
  /\ rawDays \in { <<d>> : d \in ParsedDays }
  /\ lookupToday = ClassifyDate
  /\ lookupZone = "UTC"
  /\ weekOffset = 0
  /\ dateLookup = buildDateLookupForWeek(ClassifyDate, "UTC", 0)
  /\ allShifts = <<>>

ApplyPushShifts ==
  /\ textPc = "classify"
  /\ allShifts' = PushShifts(allShifts, rawDays, dateLookup)
  /\ textPc' = "classified"
  /\ UNCHANGED <<pageText, rawDays, lookupToday, lookupZone, weekOffset, dateLookup,
                 formatVars, pageVars, diffVars, mapVars, discVars, runVars, filterVars,
                 parseVars>>

NextClassify == ApplyPushShifts

SpecClassify == InitClassify /\ [][NextClassify]_vars

\* the detail lines of the parsed day, as DetailLines names them
NamedDetails ==
  [i \in 1..Len(rawDays[1].details) |->
     CHOOSE x \in DetailLines : x.raw = rawDays[1].details[i]]

\* the positions of the off lines and of the lines with a time range
OffLines == { i \in 1..Len(NamedDetails) : NamedDetails[i].off }
TimedLines == { i \in 1..Len(NamedDetails) : NamedDetails[i].start # NULL }

FirstOf(S) == CHOOSE i \in S : \A j \in S : i <= j

\* C26: the shift of a parsed day is off iff one of its detail lines belongs
\* to the off vocabulary, also when a detail line holds a time range; its note
\* is the first such line if it is off, else the details joined by " | " if no
\* line holds a time range and there are details, else null
C26_OffWinsAndNote ==
  textPc = "classified" /\ Len(allShifts) = 1 =>
    LET x == allShifts[1]
    IN /\ x.off <=> OffLines # {}
       /\ OffLines # {} => x.note = NamedDetails[FirstOf(OffLines)].raw
       /\ OffLines = {} /\ TimedLines = {} /\ Len(NamedDetails) > 0 =>
            x.note = Join(rawDays[1].details, <<" ", "|", " ">>)
       /\ OffLines = {} /\ (TimedLines # {} \/ Len(NamedDetails) = 0) => x.note = NULL
       /\ TimedLines # {} => /\ x.start = NamedDetails[FirstOf(TimedLines)].start
                             /\ x.end = NamedDetails[FirstOf(TimedLines)].end
       /\ TimedLines = {} => x.start = NULL /\ x.end = NULL

\* a day with a time range, "annual leave" and "Day Off": off, with the times,
\* and the note is "annual leave"
C26_Witness ==
  /\ textPc = "classified"
  /\ Len(allShifts) = 1
  /\ rawDays[1].details = << <<"9", ":", "0", "0", "-", "1", "7", ":", "0", "0">>, <<"a", "n", "n", "u", "a", "l", " ", "l", "e", "a", "v", "e">>, <<"D", "a", "y", " ", "O", "f", "f">> >>
  /\ allShifts[1].off
  /\ allShifts[1].start = <<"9", ":", "0", "0">>
  /\ allShifts[1].note = <<"a", "n", "n", "u", "a", "l", " ", "l", "e", "a", "v", "e">>

\* a day with two lines, neither off nor a time range: the note is both, joined
C26_WitnessRawNote ==
  /\ textPc = "classified"
  /\ Len(allShifts) = 1
  /\ rawDays[1].details = << <<"S", "t", "o", "r", "e", " ", "1", "2">>, <<"R", "O", "I", "s">> >>
  /\ ~allShifts[1].off
  /\ allShifts[1].note = <<"S", "t", "o", "r", "e", " ", "1", "2", " ", "|", " ", "R", "O", "I", "s">>

====
